---- MODULE Spec2Model ----
(***************************************************************************)
(* A model of the query and edit engine of jarxorg/tree: the Node tree     *)
(* (Array, Map, Value), the Query plans and their Exec, the Selector       *)
(* predicates, the tokenizer and parser, and Edit with its arrayHolder     *)
(* boxing.                                                                  *)
(*                                                                         *)
(* Go values are modelled as records tagged by t.  A Go nil interface is   *)
(* GoNil, the NilValue sentinel is Nil.  A nil dereference or a slice      *)
(* bound fault is the outcome Panic, which unwinds like an error.          *)
(***************************************************************************)
EXTENDS Integers, Sequences, FiniteSets, TLC

VARIABLES tree, call, ret, nedits, funcs, mux, frames, regd, got, heap, wstack

\* The tree and the call made on it.
nodevars == <<tree, call, ret, nedits>>

\* The registry of method-query factories, its lock and the goroutines.
regvars == <<funcs, mux, frames, regd, got>>

\* The tree as the objects that Go shares by reference, and the calls of
\* walk that a WalkQuery edit is in.
walkvars == <<heap, wstack>>

vars == <<tree, call, ret, nedits, funcs, mux, frames, regd, got, heap, wstack>>

(***************************************************************************)
(* Bounds of the model.                                                    *)
(***************************************************************************)
\* The number of Edit calls applied one after the other to one tree.
MaxEdits == 1

\* The largest array index that the enumerated queries and keys use.
MaxIndex == 2

\* How often one expression is applied to a tree by Edit calls in a row.
MaxRepeats == 3

\* The number of Set calls made one after the other on one Array.
MaxSets == 2

\* The number of goroutines that use the registry.
NumProcs == 2

\* The depth of the calls of walk that the model follows.
MaxWalkDepth == 6

(***************************************************************************)
(* Nodes.                                                                  *)
(***************************************************************************)
\* The identity of a Map or an arrayHolder that is not tracked.
NoId == <<"-">>

GoNil == [t |-> "nil"]

Nil == [t |-> "null"]

StringValue(s) == [t |-> "string", s |-> s]

BoolValue(b) == [t |-> "bool", b |-> b]

NumberValue(i) == [t |-> "number", i |-> i]

\* Array{...}: a non-nil slice.
Array(s) == [t |-> "array", a |-> s, isnil |-> FALSE]

\* Array(nil): the nil slice, which has no elements.
NilArray == [t |-> "array", a |-> <<>>, isnil |-> TRUE]

\* Map{...}: m is a function from the present keys to their values.
Map(f) == [t |-> "map", m |-> f, id |-> NoId]

\* &arrayHolder{&a}: a pointer to a boxed Array, used during Edit.
ArrayHolder(s, id) == [t |-> "holder", a |-> s, id |-> id]

EmptyMap == Map(<<>>)

Panic == "panic"

NoErr == ""

PanicNode == [t |-> "panic"]

\* Type().IsValue(): t & TypeValue != 0.
IsValue(n) == n.t \in {"null", "string", "bool", "number"}

\* n.Array() != nil: an Array that is not the nil slice, or a holder.
IsArrayNode(n) == (n.t = "array" /\ ~n.isnil) \/ n.t = "holder"

\* n.Map() != nil.
IsMapNode(n) == n.t = "map"

\* The elements seen through n.Array().
Elems(n) == IF n.t \in {"array", "holder"} THEN n.a ELSE <<>>

\* The node implements EditorNode: Map, *arrayHolder (and *Array, which no
\* tree holds: a tree holds Array values, whose methods Set, Append and
\* Delete have pointer receivers).
IsEditorNode(n) == n.t \in {"map", "holder"}

(***************************************************************************)
(* Keys: an interface{} holding an int, a string or something else.        *)
(***************************************************************************)
IntKey(i) == [k |-> "int", i |-> i]

StrKey(s) == [k |-> "str", s |-> s]

OtherKey == [k |-> "other"]

DigitStr == <<"0", "1", "2", "3", "4", "5", "6", "7", "8", "9">>

\* strconv.Itoa for the integers the model uses.
Itoa(i) == IF i >= 0 /\ i < Len(DigitStr) THEN DigitStr[i + 1] ELSE "-1"

\* strconv.Atoi succeeds.
AtoiOk(s) == s = "-1" \/ \E i \in 1..Len(DigitStr) : DigitStr[i] = s

\* strconv.Atoi's value where it succeeds.
Atoi(s) == IF s = "-1" THEN -1
           ELSE (CHOOSE i \in 1..Len(DigitStr) : DigitStr[i] = s) - 1

\* sort.Strings order on the keys of the model: digits before letters.
KeyOrder == <<"0", "1", "2", "3", "4", "5", "6", "7", "8", "9",
              "a", "b", "c", "k", "name">>

RECURSIVE SortedFrom(_, _)
SortedFrom(ks, i) ==
    IF i > Len(KeyOrder) THEN <<>>
    ELSE (IF KeyOrder[i] \in ks THEN <<KeyOrder[i]>> ELSE <<>>)
         \o SortedFrom(ks, i + 1)

\* Map.Keys: the keys, sorted.
MapKeys(n) == SortedFrom(DOMAIN n.m, 1)

\* Map.Values: the values in the order of the sorted keys.
MapValues(n) == [i \in 1..Len(MapKeys(n)) |-> n.m[MapKeys(n)[i]]]

\* Array.toIndex: <<index, ok>>.
ToIndex(n, key) ==
    IF key.k = "int" /\ key.i >= 0 THEN <<key.i, key.i < Len(n.a)>>
    ELSE IF key.k = "str" /\ AtoiOk(key.s) /\ Atoi(key.s) >= 0
         THEN <<Atoi(key.s), Atoi(key.s) < Len(n.a)>>
    ELSE <<-1, FALSE>>

\* Map.toKey: <<key, ok>>.
ToKey(n, key) ==
    IF key.k = "int" THEN <<Itoa(key.i), Itoa(key.i) \in DOMAIN n.m>>
    ELSE IF key.k = "str" THEN <<key.s, key.s \in DOMAIN n.m>>
    ELSE <<"", FALSE>>

\* Has(keys...): "true", "false", or "panic" when the descent calls a
\* method on a nil element.
RECURSIVE HasKeys(_, _)
HasKeys(n, keys) ==
    IF n.t = "nil" THEN Panic
    ELSE IF n.t \in {"array", "holder"} THEN
        IF Len(keys) > 0 /\ ToIndex(n, keys[1])[2]
        THEN IF Len(keys) > 1
             THEN HasKeys(n.a[ToIndex(n, keys[1])[1] + 1], Tail(keys))
             ELSE "true"
        ELSE "false"
    ELSE IF n.t = "map" THEN
        IF Len(keys) > 0 /\ ToKey(n, keys[1])[2]
        THEN IF Len(keys) > 1
             THEN HasKeys(n.m[ToKey(n, keys[1])[1]], Tail(keys))
             ELSE "true"
        ELSE "false"
    ELSE "false"

\* Get(keys...): the node found, Nil on a miss, or PanicNode when the
\* descent calls a method on a nil element.
RECURSIVE GetKeys(_, _)
GetKeys(n, keys) ==
    IF n.t = "nil" THEN PanicNode
    ELSE IF n.t \in {"array", "holder"} THEN
        IF Len(keys) > 0 /\ ToIndex(n, keys[1])[2]
        THEN LET e == n.a[ToIndex(n, keys[1])[1] + 1] IN
             IF Len(keys) > 1 THEN GetKeys(e, Tail(keys))
             ELSE IF e = GoNil THEN Nil ELSE e
        ELSE Nil
    ELSE IF n.t = "map" THEN
        IF Len(keys) > 0 /\ ToKey(n, keys[1])[2]
        THEN LET e == n.m[ToKey(n, keys[1])[1]] IN
             IF Len(keys) > 1 THEN GetKeys(e, Tail(keys))
             ELSE IF e = GoNil THEN Nil ELSE e
        ELSE Nil
    ELSE Nil

\* n.Has(key) with one key.
Has(n, key) == HasKeys(n, <<key>>) = "true"

\* n.Get(key) with one key.
Get(n, key) == GetKeys(n, <<key>>)

(***************************************************************************)
(* Values and their comparison.                                            *)
(***************************************************************************)
\* n.Value(): the node itself for a primitive, the Nil sentinel else.
ValueOf(n) == IF IsValue(n) THEN n ELSE Nil

\* The byte order of the strings the model uses.
StrOrder == <<"", "(", "^x", "x", "xy", "y">>

StrRank(s) == CHOOSE i \in 1..Len(StrOrder) : StrOrder[i] = s

\* regexp.Compile(expr) fails: of the model's patterns only "(" is invalid.
RegexpInvalid(expr) == expr = "("

\* re.MatchString(value) for the model's patterns: "^x" matches a string
\* that starts with x, any other valid pattern is a literal substring.
RegexpMatch(expr, value) ==
    CASE expr = ""   -> TRUE
      [] expr = "^x" -> value \in {"x", "xy"}
      [] expr = "x"  -> value \in {"x", "xy", "^x"}
      [] expr = "y"  -> value \in {"y", "xy"}
      [] OTHER       -> expr = value

\* regexpMatchString(expr, value): the match and the compile error.
RegexpMatchString(expr, value) ==
    IF RegexpInvalid(expr) THEN [ok |-> FALSE, err |-> "error parsing regexp"]
    ELSE [ok |-> RegexpMatch(expr, value), err |-> NoErr]

NilValue_Compare(op, v) ==
    CASE op = "==" -> v.t = "nil" \/ v.t = "null"
      [] op = "!=" -> v.t # "nil" /\ v.t # "null"
      [] OTHER     -> FALSE

StringValue_Compare(n, op, v) ==
    IF v.t # "string" THEN op = "!="
    ELSE CASE op = "==" -> n.s = v.s
           [] op = ">"  -> StrRank(n.s) > StrRank(v.s)
           [] op = ">=" -> StrRank(n.s) >= StrRank(v.s)
           [] op = "<"  -> StrRank(n.s) < StrRank(v.s)
           [] op = "<=" -> StrRank(n.s) <= StrRank(v.s)
           [] op = "!=" -> n.s # v.s
           [] op = "~=" -> RegexpMatchString(v.s, n.s).ok
           [] OTHER     -> FALSE

BoolValue_Compare(n, op, v) ==
    IF v.t # "bool" THEN op = "!="
    ELSE CASE op = "==" -> n.b = v.b
           [] op = "!=" -> n.b # v.b
           [] OTHER     -> FALSE

NumberValue_Compare(n, op, v) ==
    IF v.t # "number" THEN op = "!="
    ELSE CASE op = "==" -> n.i = v.i
           [] op = ">"  -> n.i > v.i
           [] op = ">=" -> n.i >= v.i
           [] op = "<"  -> n.i < v.i
           [] op = "<=" -> n.i <= v.i
           [] op = "!=" -> n.i # v.i
           [] OTHER     -> FALSE

\* Value.Compare, dispatched on the receiver.
Compare(n, op, v) ==
    CASE n.t = "null"   -> NilValue_Compare(op, v)
      [] n.t = "string" -> StringValue_Compare(n, op, v)
      [] n.t = "bool"   -> BoolValue_Compare(n, op, v)
      [] n.t = "number" -> NumberValue_Compare(n, op, v)

(***************************************************************************)
(* Query plans.                                                            *)
(***************************************************************************)
NopQuery == [q |-> "nop"]

ValueQuery(n) == [q |-> "value", n |-> n]

MapQuery(key) == [q |-> "map", key |-> key]

ArrayQuery(i) == [q |-> "array", i |-> i]

ArrayRangeQuery(r) == [q |-> "range", r |-> r]

SlurpQuery == [q |-> "slurp"]

FilterQuery(qs) == [q |-> "filter", qs |-> qs]

WalkQuery(key) == [q |-> "walk", key |-> key]

SelectQuery(sel) == [q |-> "select", sel |-> sel]

\* The nil Selector of SelectQuery{}.
NoSelector == [s |-> "nil"]

And(ss) == [s |-> "and", ss |-> ss]

Or(ss) == [s |-> "or", ss |-> ss]

Comparator(l, op, r) == [s |-> "cmp", left |-> l, op |-> op, right |-> r]

\* The outcome of an Exec: the results and the error ("" for nil).
Out(rs, err) == [rs |-> rs, err |-> err]

ErrIndexKey == "cannot index array with key"

ErrIndexInt == "cannot index array with index"

ErrIndexRange == "cannot index array with range"

ErrInvalidRange == "invalid array range"

ErrNoSingle == "returns no single value"

SubSeqOr(s, from, to) == IF from > to THEN <<>> ELSE SubSeq(s, from, to)

\* The values of key k of the Maps among ns that have k, in the order of ns.
RECURSIVE ValuesOfKey(_, _)
ValuesOfKey(ns, k) ==
    IF Len(ns) = 0 THEN <<>>
    ELSE (IF Head(ns).t = "map" /\ k \in DOMAIN Head(ns).m
          THEN <<IF Head(ns).m[k] = GoNil THEN Nil ELSE Head(ns).m[k]>>
          ELSE <<>>)
         \o ValuesOfKey(Tail(ns), k)

\* MapQuery.Exec as it would be if it fanned out over the element Maps of
\* an Array that has no element at the key.
MapQuery_Exec_FanOut(key, n) ==
    IF n = GoNil THEN Out(<<>>, Panic)
    ELSE IF IsValue(n) THEN Out(<<>>, ErrIndexKey)
    ELSE IF Has(n, StrKey(key)) THEN Out(<<Get(n, StrKey(key))>>, NoErr)
    ELSE IF IsArrayNode(n) THEN Out(ValuesOfKey(n.a, key), NoErr)
    ELSE Out(<<>>, NoErr)

MapQuery_Exec(key, n) ==
    IF n = GoNil THEN Out(<<>>, Panic)
    ELSE IF IsValue(n) THEN Out(<<>>, ErrIndexKey)
    ELSE IF Has(n, StrKey(key)) THEN Out(<<Get(n, StrKey(key))>>, NoErr)
    ELSE Out(<<>>, NoErr)

ArrayQuery_Exec(i, n) ==
    IF n = GoNil THEN Out(<<>>, Panic)
    ELSE IF IsArrayNode(n)
         THEN IF Has(n, IntKey(i)) THEN Out(<<n.a[i + 1]>>, NoErr)
              ELSE Out(<<>>, NoErr)
    ELSE Out(<<>>, ErrIndexInt)

\* a[lo:hi] of a slice of length Len(a) and capacity cap: the elements
\* past the length are modelled as nil.
SliceOf(a, lo, hi, cap) ==
    IF lo < 0 \/ hi < lo \/ hi > cap THEN Out(<<>>, Panic)
    ELSE Out([i \in 1..(hi - lo) |->
                 IF lo + i <= Len(a) THEN a[lo + i] ELSE GoNil], NoErr)

ArrayRangeQuery_Exec(r, n, cap) ==
    IF Len(r) # 2 THEN Out(<<>>, ErrInvalidRange)
    ELSE IF n = GoNil THEN Out(<<>>, Panic)
    ELSE IF IsArrayNode(n) THEN
        IF r[1] = -1 THEN SliceOf(n.a, 0, r[2], cap)
        ELSE IF r[2] = -1 THEN SliceOf(n.a, r[1], Len(n.a), cap)
        ELSE SliceOf(n.a, r[1], r[2], cap)
    ELSE Out(<<>>, ErrIndexRange)

SlurpQuery_Exec(n) == Out(<<n>>, NoErr)

\* Array(rs) of a result slice: the nil Array when rs is nil, which a
\* working set is exactly when it is empty.
ArrayOfResults(rs) == IF Len(rs) = 0 THEN NilArray ELSE Array(rs)

\* The children Each calls back with a key: none for a primitive.
Children(n) ==
    IF n.t \in {"array", "holder"} THEN n.a
    ELSE IF n.t = "map" THEN MapValues(n)
    ELSE <<>>

\* CountQuery.Exec: ToNodeValues(len) of an Array or a Map, 0 otherwise.
CountQuery_Exec(n) ==
    IF n.t = "array" THEN Out(<<NumberValue(Len(n.a))>>, NoErr)
    ELSE IF n.t = "map" THEN Out(<<NumberValue(Len(MapKeys(n)))>>, NoErr)
    ELSE Out(<<NumberValue(0)>>, NoErr)

\* KeysQuery.Exec: one Array made of the indices, or of the sorted keys.
KeysQuery_Exec(n) ==
    IF n.t = "array"
    THEN Out(<<Array([i \in 1..Len(n.a) |-> NumberValue(i - 1)])>>, NoErr)
    ELSE IF n.t = "map"
    THEN Out(<<Array([i \in 1..Len(MapKeys(n)) |-> StringValue(MapKeys(n)[i])])>>,
             NoErr)
    ELSE Out(<<>>, NoErr)

\* ValuesQuery.Exec: the Array itself, or one Array made of m[key] for the
\* sorted keys; a nil entry stays nil.
ValuesQuery_Exec(n) ==
    IF n.t = "array" THEN Out(<<n>>, NoErr)
    ELSE IF n.t = "map" THEN Out(<<Array(MapValues(n))>>, NoErr)
    ELSE Out(<<>>, NoErr)

\* The Exec of the query that NewMethodQuery(method) returns.
MethodQuery_Exec(method, n) ==
    CASE method = "count" -> CountQuery_Exec(n)
      [] method = "keys" -> KeysQuery_Exec(n)
      [] method = "values" -> ValuesQuery_Exec(n)

\* The error of SkipWalk, and an error of the caller's own.
SkipWalk == "skip"

ErrBoom == "boom"

\* A WalkFunc of the model: it returns SkipWalk at the paths of skip, an
\* error of its own at the paths of fail, and nil elsewhere.
WalkFunc(skip, fail) == [skip |-> skip, fail |-> fail]

CallFn(fn, keys) ==
    IF keys \in fn.skip THEN SkipWalk
    ELSE IF keys \in fn.fail THEN ErrBoom
    ELSE NoErr

\* The keys Each passes to its callback, in its order: the indices of an
\* Array (written in decimal), the sorted keys of a Map; a scalar calls
\* the callback once with a nil key, which walk ignores.
EachKeys(n) ==
    IF n.t \in {"array", "holder"} THEN [i \in 1..Len(n.a) |-> Itoa(i - 1)]
    ELSE IF n.t = "map" THEN MapKeys(n)
    ELSE <<>>

\* A call of fn: the node and the keys it was given.
Visit(n, keys) == [n |-> n, keys |-> keys]

RECURSIVE walk(_, _, _), walkEach(_, _, _, _)
\* walk as it would be if SkipWalk were returned like any other error.
walk_SkipStops(n, lastKeys, fn) ==
    IF n = GoNil THEN Out(<<>>, NoErr)
    ELSE IF CallFn(fn, lastKeys) # NoErr
         THEN Out(<<Visit(n, lastKeys)>>, CallFn(fn, lastKeys))
         ELSE LET K(r) == Out(<<Visit(n, lastKeys)>> \o r.rs, r.err)
              IN K(walkEach(n, EachKeys(n), lastKeys, fn))

\* walk: the calls of fn in order, and the error returned.
walk(n, lastKeys, fn) ==
    IF n = GoNil THEN Out(<<>>, NoErr)
    ELSE IF CallFn(fn, lastKeys) = SkipWalk
         THEN Out(<<Visit(n, lastKeys)>>, NoErr)
    ELSE IF CallFn(fn, lastKeys) # NoErr
         THEN Out(<<Visit(n, lastKeys)>>, CallFn(fn, lastKeys))
    ELSE LET K(r) == Out(<<Visit(n, lastKeys)>> \o r.rs, r.err)
         IN K(walkEach(n, EachKeys(n), lastKeys, fn))

\* n.Each with the callback of walk: the loop stops at the first error.
walkEach(n, ks, lastKeys, fn) ==
    IF Len(ks) = 0 THEN Out(<<>>, NoErr)
    ELSE LET K(r) ==
               IF r.err # NoErr THEN r
               ELSE LET L(s) == Out(r.rs \o s.rs, s.err)
                    IN L(walkEach(n, Tail(ks), lastKeys, fn))
         IN K(walk(IF n.t = "map" THEN n.m[Head(ks)] ELSE n.a[Atoi(Head(ks)) + 1],
                   Append(lastKeys, Head(ks)), fn))

Walk(n, fn) == walk(n, <<>>, fn)

\* WalkQuery.Exec: Walk in pre-order, collecting Get(key) at every node
\* that has the key; the callback never returns SkipWalk.
RECURSIVE WalkCollect(_, _), WalkCollectAll(_, _)
\* The walk as it would be if the callback returned SkipWalk on a match.
WalkCollect_SkipMatched(n, key) ==
    IF n = GoNil THEN <<>>
    ELSE IF Has(n, StrKey(key)) THEN <<Get(n, StrKey(key))>>
    ELSE WalkCollectAll(Children(n), key)

WalkCollect(n, key) ==
    IF n = GoNil THEN <<>>
    ELSE (IF Has(n, StrKey(key)) THEN <<Get(n, StrKey(key))>> ELSE <<>>)
         \o WalkCollectAll(Children(n), key)

WalkCollectAll(ns, key) ==
    IF Len(ns) = 0 THEN <<>>
    ELSE WalkCollect(Head(ns), key) \o WalkCollectAll(Tail(ns), key)

WalkQuery_Exec(key, root) == Out(WalkCollect(root, key), NoErr)

RECURSIVE Exec(_, _), FilterSteps(_, _), FilterEach(_, _),
          Matches(_, _), AndMatches(_, _), OrMatches(_, _), SelectEach(_, _)

\* Comparator.Matches.
Comparator_Matches(c, n) ==
    LET l == Exec(c.left, n) IN
    IF l.err # NoErr THEN [ok |-> FALSE, err |-> l.err]
    ELSE LET r == Exec(c.right, n) IN
    IF r.err # NoErr THEN [ok |-> FALSE, err |-> r.err]
    ELSE IF Len(l.rs) > 1 \/ Len(r.rs) > 1 THEN [ok |-> FALSE, err |-> ErrNoSingle]
    ELSE LET l0 == IF Len(l.rs) = 0 THEN GoNil ELSE l.rs[1]
             r0 == IF Len(r.rs) = 0 THEN GoNil ELSE r.rs[1]
         IN IF l0 = GoNil \/ r0 = GoNil
            THEN [ok |-> (l0 = GoNil /\ r0 = GoNil), err |-> NoErr]
            ELSE [ok |-> Compare(ValueOf(l0), c.op, ValueOf(r0)), err |-> NoErr]

\* And.Matches: false on the first selector that fails or does not match.
AndMatches(ss, n) ==
    IF Len(ss) = 0 THEN [ok |-> TRUE, err |-> NoErr]
    ELSE LET m == Matches(Head(ss), n) IN
         IF m.err # NoErr \/ ~m.ok THEN [ok |-> FALSE, err |-> m.err]
         ELSE AndMatches(Tail(ss), n)

\* Or.Matches: true on the first selector that matches.
OrMatches(ss, n) ==
    IF Len(ss) = 0 THEN [ok |-> FALSE, err |-> NoErr]
    ELSE LET m == Matches(Head(ss), n) IN
         IF m.err # NoErr THEN [ok |-> FALSE, err |-> m.err]
         ELSE IF m.ok THEN [ok |-> TRUE, err |-> NoErr]
         ELSE OrMatches(Tail(ss), n)

Matches(sel, n) ==
    CASE sel.s = "and" -> AndMatches(sel.ss, n)
      [] sel.s = "or"  -> OrMatches(sel.ss, n)
      [] sel.s = "cmp" -> Comparator_Matches(sel, n)

\* The loop of SelectQuery.Exec over the elements ns.
SelectEach(sel, ns) ==
    IF Len(ns) = 0 THEN Out(<<>>, NoErr)
    ELSE LET m == Matches(sel, Head(ns)) IN
         IF m.err # NoErr THEN Out(<<>>, m.err)
         ELSE LET rest == SelectEach(sel, Tail(ns)) IN
              IF rest.err # NoErr THEN rest
              ELSE Out((IF m.ok THEN <<Head(ns)>> ELSE <<>>) \o rest.rs, NoErr)

\* SelectQuery.Exec as it would be if it tested the elements of an Array
\* only.
SelectQuery_Exec_ArrayOnly(sel, n) ==
    IF n = GoNil THEN Out(<<>>, Panic)
    ELSE IF IsArrayNode(n) THEN
        IF sel = NoSelector THEN Out(n.a, NoErr) ELSE SelectEach(sel, n.a)
    ELSE Out(<<>>, NoErr)

SelectQuery_Exec(sel, n) ==
    IF n = GoNil THEN Out(<<>>, Panic)
    ELSE IF IsArrayNode(n) THEN
        IF sel = NoSelector THEN Out(n.a, NoErr) ELSE SelectEach(sel, n.a)
    ELSE IF IsMapNode(n) THEN
        IF sel = NoSelector THEN Out(MapValues(n), NoErr)
        ELSE SelectEach(sel, MapValues(n))
    ELSE Out(<<>>, NoErr)

\* The inner loop as it would be if it kept the results of one node only.
FilterEach_Overwrite(q, rs) ==
    IF Len(rs) = 0 THEN Out(<<>>, NoErr)
    ELSE IF Head(rs) = GoNil THEN FilterEach(q, Tail(rs))
    ELSE LET nr == Exec(q, Head(rs)) IN
         IF nr.err # NoErr THEN Out(<<>>, nr.err)
         ELSE LET rest == FilterEach(q, Tail(rs)) IN
              IF rest.err # NoErr THEN rest
              ELSE Out(IF Len(rest.rs) > 0 THEN rest.rs ELSE nr.rs, NoErr)

\* The inner loop as it would be if it skipped the nodes on which q fails.
FilterEach_SkipFailed(q, rs) ==
    IF Len(rs) = 0 THEN Out(<<>>, NoErr)
    ELSE IF Head(rs) = GoNil THEN FilterEach(q, Tail(rs))
    ELSE LET nr == Exec(q, Head(rs)) IN
         IF nr.err # NoErr THEN FilterEach(q, Tail(rs))
         ELSE LET rest == FilterEach(q, Tail(rs)) IN
              IF rest.err # NoErr THEN rest
              ELSE Out(nr.rs \o rest.rs, NoErr)

\* The inner loop of FilterQuery.Exec: q on every non-nil r of rs.
FilterEach(q, rs) ==
    IF Len(rs) = 0 THEN Out(<<>>, NoErr)
    ELSE IF Head(rs) = GoNil THEN FilterEach(q, Tail(rs))
    ELSE LET nr == Exec(q, Head(rs)) IN
         IF nr.err # NoErr THEN Out(<<>>, nr.err)
         ELSE LET rest == FilterEach(q, Tail(rs)) IN
              IF rest.err # NoErr THEN rest
              ELSE Out(nr.rs \o rest.rs, NoErr)

\* The outer loop as it would be if Slurp were run like any other step, on
\* every node of the working set.
FilterSteps_SlurpEach(qs, rs) ==
    IF Len(qs) = 0 THEN Out(rs, NoErr)
    ELSE LET nrs == FilterEach(Head(qs), rs) IN
         IF nrs.err # NoErr THEN Out(<<>>, nrs.err)
         ELSE FilterSteps(Tail(qs), nrs.rs)

\* The outer loop of FilterQuery.Exec over the steps qs.
FilterSteps(qs, rs) ==
    IF Len(qs) = 0 THEN Out(rs, NoErr)
    ELSE IF Head(qs).q = "slurp"
         THEN FilterSteps(Tail(qs), SlurpQuery_Exec(ArrayOfResults(rs)).rs)
    ELSE LET nrs == FilterEach(Head(qs), rs) IN
         IF nrs.err # NoErr THEN Out(<<>>, nrs.err)
         ELSE FilterSteps(Tail(qs), nrs.rs)

FilterQuery_Exec(qs, n) == FilterSteps(qs, <<n>>)

\* Query.Exec, dispatched on the plan.
Exec(q, n) ==
    CASE q.q = "nop"    -> Out(<<n>>, NoErr)
      [] q.q = "value"  -> Out(<<q.n>>, NoErr)
      [] q.q = "map"    -> MapQuery_Exec(q.key, n)
      [] q.q = "array"  -> ArrayQuery_Exec(q.i, n)
      [] q.q = "range"  -> ArrayRangeQuery_Exec(q.r, n, Len(Elems(n)))
      [] q.q = "slurp"  -> SlurpQuery_Exec(n)
      [] q.q = "filter" -> FilterQuery_Exec(q.qs, n)
      [] q.q = "walk"   -> WalkQuery_Exec(q.key, n)
      [] q.q = "select" -> SelectQuery_Exec(q.sel, n)

(***************************************************************************)
(* Text.  A Go string that is parsed or rendered is a sequence of          *)
(* characters, each a string of length one; Str gives the string that the  *)
(* engine uses as a key or a value.                                        *)
(***************************************************************************)
RECURSIVE Str(_)
Str(cs) == IF Len(cs) = 0 THEN "" ELSE Head(cs) \o Str(Tail(cs))

Quote == "\""

Digits == {DigitStr[i] : i \in 1..Len(DigitStr)}

\* \w of the regular expressions, for the characters the model's texts use.
WordChars ==
    Digits \cup {"a", "b", "c", "d", "e", "f", "k", "l", "m", "n", "o", "r",
                 "s", "t", "u", "x", "y", "_"}

IsDigits(cs) == Len(cs) > 0 /\ \A i \in 1..Len(cs) : cs[i] \in Digits

RECURSIVE DecimalOf(_)
DecimalOf(cs) ==
    IF Len(cs) = 0 THEN 0
    ELSE 10 * DecimalOf(SubSeq(cs, 1, Len(cs) - 1))
         + ((CHOOSE i \in 1..Len(DigitStr) : DigitStr[i] = cs[Len(cs)]) - 1)

\* strconv.Atoi on a sequence of characters: <<value, ok>>.
AtoiChars(cs) ==
    IF IsDigits(cs) THEN <<DecimalOf(cs), TRUE>>
    ELSE IF Len(cs) > 1 /\ cs[1] \in {"-", "+"} /\ IsDigits(Tail(cs))
         THEN <<(IF cs[1] = "-" THEN -1 ELSE 1) * DecimalOf(Tail(cs)), TRUE>>
    ELSE <<0, FALSE>>

\* strconv.Itoa as characters.
RECURSIVE NatChars(_)
NatChars(i) ==
    IF i < 10 THEN <<DigitStr[i + 1]>>
    ELSE NatChars(i \div 10) \o <<DigitStr[(i % 10) + 1]>>

ItoaChars(i) == IF i < 0 THEN <<"-">> \o NatChars(-i) ELSE NatChars(i)

(***************************************************************************)
(* tokenRegexp.FindAllStringSubmatch: the matches, leftmost first, each    *)
(* with its three groups; a character that starts no match is skipped.     *)
(***************************************************************************)
Match(m1, m2, m3) == [m1 |-> m1, m2 |-> m2, m3 |-> m3]

\* The commands of more than one character, in the order of the alternation.
MultiCmds ==
    <<<<"a", "n", "d">>, <<"o", "r">>, <<"=", "=">>, <<"<", "=">>,
      <<">", "=">>, <<"!", "=">>, <<".", ".">>>>

SingleCmds == {".", "[", "]", "(", ")", "|", "<", ">", ":"}

StartsWith(cs, i, lit) ==
    i + Len(lit) - 1 <= Len(cs) /\ SubSeq(cs, i, i + Len(lit) - 1) = lit

\* The index of the quote that closes the one at i, or 0.
QuoteEnd(cs, i) ==
    IF \E j \in (i + 1)..Len(cs) : cs[j] = Quote
    THEN CHOOSE j \in (i + 1)..Len(cs) :
            cs[j] = Quote /\ \A h \in (i + 1)..(j - 1) : cs[h] # Quote
    ELSE 0

\* The index of the last character of the word that starts at i.
WordEnd(cs, i) ==
    CHOOSE j \in i..Len(cs) :
        /\ \A h \in i..j : cs[h] \in WordChars
        /\ (j = Len(cs) \/ cs[j + 1] \notin WordChars)

\* The match that starts at i and the index after it; a character that
\* starts no match gives no match and the next index.
MatchAt(cs, i) ==
    IF cs[i] = Quote /\ QuoteEnd(cs, i) # 0
    THEN [ms |-> <<Match(SubSeq(cs, i + 1, QuoteEnd(cs, i) - 1), "", <<>>)>>,
          next |-> QuoteEnd(cs, i) + 1]
    ELSE IF \E k \in 1..Len(MultiCmds) : StartsWith(cs, i, MultiCmds[k])
    THEN LET k == CHOOSE k \in 1..Len(MultiCmds) :
                     /\ StartsWith(cs, i, MultiCmds[k])
                     /\ \A h \in 1..(k - 1) : ~StartsWith(cs, i, MultiCmds[h])
         IN [ms |-> <<Match(<<>>, Str(MultiCmds[k]), <<>>)>>,
             next |-> i + Len(MultiCmds[k])]
    ELSE IF cs[i] \in SingleCmds
    THEN [ms |-> <<Match(<<>>, cs[i], <<>>)>>, next |-> i + 1]
    ELSE IF cs[i] \in WordChars
    THEN [ms |-> <<Match(<<>>, "", SubSeq(cs, i, WordEnd(cs, i)))>>,
          next |-> WordEnd(cs, i) + 1]
    ELSE [ms |-> <<>>, next |-> i + 1]

RECURSIVE FindAllStringSubmatch(_, _)
FindAllStringSubmatch(cs, i) ==
    IF i > Len(cs) THEN <<>>
    ELSE MatchAt(cs, i).ms \o FindAllStringSubmatch(cs, MatchAt(cs, i).next)

(***************************************************************************)
(* tokenizeQuery: the token tree.  The stack holds the open tokens, the    *)
(* last of them being current; a token joins the children of its parent    *)
(* when its bracket closes, which is the place it was appended at.         *)
(***************************************************************************)
Token(cmd, quoted, value, children) ==
    [cmd |-> cmd, quoted |-> quoted, value |-> value, children |-> children]

ErrNoLeftBracket == "syntax error: no left bracket"

ErrNoRightBrackets == "syntax error: no right brackets"

ErrInvalidArrayIndex == "syntax error: invalid array index"

ErrInvalidArrayRange == "syntax error: invalid array range"

ErrInvalidToken == "syntax error: invalid token"

ErrMixedAndOr == "syntax error: mixed and|or"

RECURSIVE TokenizeFrom(_, _, _)
\* The loop as it would be if a closing bracket closed the open token of
\* either kind.
TokenizeFrom_AnyCloser(ms, i, stack) ==
    LET current == stack[Len(stack)]
        kids == current.children
    IN
    IF i > Len(ms)
    THEN IF Len(stack) > 1 THEN [t |-> current, err |-> ErrNoRightBrackets]
         ELSE [t |-> current, err |-> NoErr]
    ELSE IF ms[i].m1 # <<>> \/ ms[i].m3 # <<>>
    THEN LET quoted == ms[i].m1 # <<>>
             value == IF quoted THEN ms[i].m1 ELSE ms[i].m3
             cur2 == IF Len(kids) > 0 /\ kids[Len(kids)].cmd \in {".", ".."}
                     THEN [current EXCEPT !.children[Len(kids)] =
                              [@ EXCEPT !.value = value, !.quoted = quoted]]
                     ELSE [current EXCEPT !.children =
                              Append(@, Token("", quoted, value, <<>>))]
         IN TokenizeFrom(ms, i + 1, [stack EXCEPT ![Len(stack)] = cur2])
    ELSE IF ms[i].m2 \in {"]", ")"}
    THEN IF current.cmd \notin {"[", "("}
         THEN [t |-> current, err |-> ErrNoLeftBracket]
         ELSE LET parent == stack[Len(stack) - 1]
              IN TokenizeFrom(ms, i + 1,
                    Append(SubSeq(stack, 1, Len(stack) - 2),
                           [parent EXCEPT !.children = Append(@, current)]))
    ELSE IF ms[i].m2 \in {"[", "("}
    THEN TokenizeFrom(ms, i + 1, Append(stack, Token(ms[i].m2, FALSE, <<>>, <<>>)))
    ELSE TokenizeFrom(ms, i + 1,
            [stack EXCEPT ![Len(stack)] =
                [current EXCEPT !.children =
                    Append(@, Token(ms[i].m2, FALSE, <<>>, <<>>))]])

TokenizeFrom(ms, i, stack) ==
    LET current == stack[Len(stack)]
        kids == current.children
    IN
    IF i > Len(ms)
    THEN IF Len(stack) > 1 THEN [t |-> current, err |-> ErrNoRightBrackets]
         ELSE [t |-> current, err |-> NoErr]
    ELSE IF ms[i].m1 # <<>> \/ ms[i].m3 # <<>>
    THEN LET quoted == ms[i].m1 # <<>>
             value == IF quoted THEN ms[i].m1 ELSE ms[i].m3
             cur2 == IF Len(kids) > 0 /\ kids[Len(kids)].cmd \in {".", ".."}
                     THEN [current EXCEPT !.children[Len(kids)] =
                              [@ EXCEPT !.value = value, !.quoted = quoted]]
                     ELSE [current EXCEPT !.children =
                              Append(@, Token("", quoted, value, <<>>))]
         IN TokenizeFrom(ms, i + 1, [stack EXCEPT ![Len(stack)] = cur2])
    ELSE IF ms[i].m2 \in {"]", ")"}
    THEN IF \/ ms[i].m2 = "]" /\ current.cmd # "["
            \/ ms[i].m2 = ")" /\ current.cmd # "("
         THEN [t |-> current, err |-> ErrNoLeftBracket]
         ELSE LET parent == stack[Len(stack) - 1]
              IN TokenizeFrom(ms, i + 1,
                    Append(SubSeq(stack, 1, Len(stack) - 2),
                           [parent EXCEPT !.children = Append(@, current)]))
    ELSE IF ms[i].m2 \in {"[", "("}
    THEN TokenizeFrom(ms, i + 1, Append(stack, Token(ms[i].m2, FALSE, <<>>, <<>>)))
    ELSE TokenizeFrom(ms, i + 1,
            [stack EXCEPT ![Len(stack)] =
                [current EXCEPT !.children =
                    Append(@, Token(ms[i].m2, FALSE, <<>>, <<>>))]])

tokenizeQuery(expr) ==
    TokenizeFrom(FindAllStringSubmatch(expr, 1), 1, <<Token("", FALSE, <<>>, <<>>)>>)

(***************************************************************************)
(* tokenToQuery and tokensToSelector: the plan of a token tree.  The keys  *)
(* and the string values of a parsed plan are sequences of characters.     *)
(***************************************************************************)
\* The nil Query returned next to an error.
NoQuery == [q |-> "nil"]

Parsed(q, err) == [q |-> q, err |-> err]

\* token.toValue; strconv.ParseFloat succeeds on the words of the model
\* that are made of digits.
toValue(t) ==
    IF ~t.quoted /\ t.value = <<"t", "r", "u", "e">> THEN BoolValue(TRUE)
    ELSE IF ~t.quoted /\ t.value = <<"f", "a", "l", "s", "e">> THEN BoolValue(FALSE)
    ELSE IF ~t.quoted /\ IsDigits(t.value) THEN NumberValue(DecimalOf(t.value))
    ELSE StringValue(t.value)

\* token.indexOfCmd, counted from 1: 0 when there is none.
indexOfCmd(ts, cmd) ==
    IF \E i \in 1..Len(ts) : ts[i].cmd = cmd
    THEN CHOOSE i \in 1..Len(ts) :
            ts[i].cmd = cmd /\ \A h \in 1..(i - 1) : ts[h].cmd # cmd
    ELSE 0

\* tokensToArrayRangeQuery, with the colon at index i counted from 1.
tokensToArrayRangeQuery(ts, i) ==
    LET from == IF i > 1 THEN AtoiChars(ts[i - 1].value) ELSE <<-1, TRUE>>
        to == IF i < Len(ts) THEN AtoiChars(ts[i + 1].value) ELSE <<-1, TRUE>>
    IN IF ~from[2] \/ ~to[2] THEN Parsed(NoQuery, ErrInvalidArrayRange)
       ELSE Parsed(ArrayRangeQuery(<<from[1], to[1]>>), NoErr)

CompareOps == {"==", ">", ">=", "<", "<=", "!="}

\* The first loop of tokensToSelector: the groups between and, or and the
\* parentheses.
RECURSIVE SplitGroups(_, _, _, _, _)
\* The first loop as it would be without the test for a second operator:
\* the last of and, or decides.
SplitGroups_LastWins(ts, i, off, andOr, groups) ==
    IF i > Len(ts)
    THEN [groups |-> Append(groups, SubSeqOr(ts, off, Len(ts))),
          andOr |-> andOr, err |-> NoErr]
    ELSE IF ts[i].cmd \in {"and", "or"}
    THEN SplitGroups(ts, i + 1, i + 1, ts[i].cmd,
                     Append(groups, SubSeqOr(ts, off, i - 1)))
    ELSE IF ts[i].cmd = "("
    THEN SplitGroups(ts, i + 1, i + 1, andOr,
                     Append(Append(groups, SubSeqOr(ts, off, i - 1)), <<ts[i]>>))
    ELSE SplitGroups(ts, i + 1, off, andOr, groups)

SplitGroups(ts, i, off, andOr, groups) ==
    IF i > Len(ts)
    THEN [groups |-> Append(groups, SubSeqOr(ts, off, Len(ts))),
          andOr |-> andOr, err |-> NoErr]
    ELSE IF ts[i].cmd \in {"and", "or"}
    THEN IF andOr # "" /\ andOr # ts[i].cmd
         THEN [groups |-> <<>>, andOr |-> andOr, err |-> ErrMixedAndOr]
         ELSE SplitGroups(ts, i + 1, i + 1, ts[i].cmd,
                          Append(groups, SubSeqOr(ts, off, i - 1)))
    ELSE IF ts[i].cmd = "("
    THEN SplitGroups(ts, i + 1, i + 1, andOr,
                     Append(Append(groups, SubSeqOr(ts, off, i - 1)), <<ts[i]>>))
    ELSE SplitGroups(ts, i + 1, off, andOr, groups)

RECURSIVE tokenToQuery(_), TokensToQueries(_), tokensToSelector(_),
          GroupsToSelectors(_)

\* The loop of tokenToQuery over the children of a token.
TokensToQueries(ts) ==
    IF Len(ts) = 0 THEN [qs |-> <<>>, err |-> NoErr]
    ELSE LET h == tokenToQuery(Head(ts)) IN
         IF h.err # NoErr THEN [qs |-> <<>>, err |-> h.err]
         ELSE LET rest == TokensToQueries(Tail(ts)) IN
              IF rest.err # NoErr THEN rest
              ELSE [qs |-> <<h.q>> \o rest.qs, err |-> NoErr]

tokenToQuery(t) ==
    LET child == Len(t.children)
        rest == IF child = 0 THEN Parsed(NoQuery, ErrInvalidToken)
                ELSE IF child = 1 THEN tokenToQuery(t.children[1])
                ELSE LET fq == TokensToQueries(t.children) IN
                     IF fq.err # NoErr THEN Parsed(NoQuery, fq.err)
                     ELSE Parsed(FilterQuery(fq.qs), NoErr)
    IN
    CASE t.cmd = "" /\ child = 0 -> Parsed(ValueQuery(toValue(t)), NoErr)
      [] t.cmd = "|" -> Parsed(SlurpQuery, NoErr)
      [] t.cmd = "." ->
           IF t.value # <<>> THEN Parsed(MapQuery(t.value), NoErr)
           ELSE Parsed(NopQuery, NoErr)
      [] t.cmd = ".." ->
           IF t.value # <<>> THEN Parsed(WalkQuery(t.value), NoErr)
           ELSE Parsed(NopQuery, NoErr)
      [] t.cmd = "[" ->
           IF child = 0 THEN Parsed(SelectQuery(NoSelector), NoErr)
           ELSE IF child = 1 THEN
               IF AtoiChars(t.children[1].value)[2]
               THEN Parsed(ArrayQuery(AtoiChars(t.children[1].value)[1]), NoErr)
               ELSE Parsed(NoQuery, ErrInvalidArrayIndex)
           ELSE IF indexOfCmd(t.children, ":") # 0
           THEN tokensToArrayRangeQuery(t.children, indexOfCmd(t.children, ":"))
           ELSE LET sel == tokensToSelector(t.children) IN
                IF sel.err # NoErr THEN Parsed(NoQuery, sel.err)
                ELSE Parsed(SelectQuery(sel.sel), NoErr)
      [] OTHER -> rest

\* The second loop of tokensToSelector: a selector of every group that
\* holds a parenthesis or a comparison operator.
GroupsToSelectors(groups) ==
    IF Len(groups) = 0 THEN [ss |-> <<>>, err |-> NoErr]
    ELSE LET group == Head(groups)
             stops == {i \in 1..Len(group) :
                         group[i].cmd = "(" \/ group[i].cmd \in CompareOps}
             op == CHOOSE i \in stops : \A h \in stops : i <= h
             one ==
               IF stops = {} THEN [ss |-> <<>>, err |-> NoErr]
               ELSE IF group[op].cmd = "("
               THEN LET sss == tokensToSelector(group[op].children) IN
                    [ss |-> <<sss.sel>>, err |-> sss.err]
               ELSE LET left == tokenToQuery(
                              Token("", FALSE, <<>>, SubSeqOr(group, 1, op - 1)))
                        right == tokenToQuery(
                              Token("", FALSE, <<>>,
                                    SubSeqOr(group, op + 1, Len(group))))
                    IN IF left.err # NoErr THEN [ss |-> <<>>, err |-> left.err]
                       ELSE IF right.err # NoErr
                       THEN [ss |-> <<>>, err |-> right.err]
                       ELSE [ss |-> <<Comparator(left.q, group[op].cmd, right.q)>>,
                             err |-> NoErr]
         IN IF one.err # NoErr THEN [ss |-> <<>>, err |-> one.err]
            ELSE LET rest == GroupsToSelectors(Tail(groups)) IN
                 IF rest.err # NoErr THEN rest
                 ELSE [ss |-> one.ss \o rest.ss, err |-> NoErr]

tokensToSelector(ts) ==
    LET split == SplitGroups(ts, 1, 1, "", <<>>) IN
    IF split.err # NoErr THEN [sel |-> NoSelector, err |-> split.err]
    ELSE LET ss == GroupsToSelectors(split.groups) IN
         IF ss.err # NoErr THEN [sel |-> NoSelector, err |-> ss.err]
         ELSE IF split.andOr = "or" THEN [sel |-> Or(ss.ss), err |-> NoErr]
         ELSE [sel |-> And(ss.ss), err |-> NoErr]

ParseQuery(expr) ==
    LET token == tokenizeQuery(expr) IN
    IF token.err # NoErr THEN Parsed(NoQuery, token.err)
    ELSE tokenToQuery(token.t)

(***************************************************************************)
(* String(): the text of a plan.  A nil dereference while rendering leaves *)
(* the element Panic in the text.                                          *)
(***************************************************************************)
RECURSIVE JoinChars(_, _)
JoinChars(parts, sep) ==
    IF Len(parts) = 0 THEN <<>>
    ELSE IF Len(parts) = 1 THEN parts[1]
    ELSE parts[1] \o sep \o JoinChars(Tail(parts), sep)

\* MarshalJSON of a primitive.
MarshalJSON(n) ==
    CASE n.t = "string" -> <<Quote>> \o n.s \o <<Quote>>
      [] n.t = "number" -> ItoaChars(n.i)
      [] n.t = "bool"   -> IF n.b THEN <<"t", "r", "u", "e">>
                           ELSE <<"f", "a", "l", "s", "e">>
      [] OTHER          -> <<"n", "u", "l", "l">>

OpChars(op) ==
    CASE op = "==" -> <<"=", "=">>
      [] op = ">=" -> <<">", "=">>
      [] op = "<=" -> <<"<", "=">>
      [] op = "!=" -> <<"!", "=">>
      [] op = "~=" -> <<"~", "=">>
      [] OTHER     -> <<op>>

ArrayRangeQuery_String(r) ==
    <<"[">> \o JoinChars([i \in 1..Len(r) |->
                            IF r[i] # -1 THEN ItoaChars(r[i]) ELSE <<>>], <<":">>)
    \o <<"]">>

RECURSIVE QueryString(_), SelectorString(_)
QueryString(q) ==
    CASE q.q = "nop"    -> <<".">>
      [] q.q = "value"  -> MarshalJSON(q.n)
      [] q.q = "map"    -> <<".">> \o q.key
      [] q.q = "array"  -> <<"[">> \o ItoaChars(q.i) \o <<"]">>
      [] q.q = "range"  -> ArrayRangeQuery_String(q.r)
      [] q.q = "slurp"  -> <<" ", "|", " ">>
      [] q.q = "filter" ->
           JoinChars([i \in 1..Len(q.qs) |-> QueryString(q.qs[i])], <<>>)
      [] q.q = "walk"   -> <<".", ".">> \o q.key
      [] q.q = "select" -> <<"[">> \o SelectorString(q.sel) \o <<"]">>

SelectorString(sel) ==
    CASE sel.s = "nil" -> <<Panic>>
      [] sel.s = "and" ->
           <<"(">> \o JoinChars([i \in 1..Len(sel.ss) |-> SelectorString(sel.ss[i])],
                               <<" ", "a", "n", "d", " ">>) \o <<")">>
      [] sel.s = "or"  ->
           <<"(">> \o JoinChars([i \in 1..Len(sel.ss) |-> SelectorString(sel.ss[i])],
                               <<" ", "o", "r", " ">>) \o <<")">>
      [] sel.s = "cmp" ->
           QueryString(sel.left) \o <<" ">> \o OpChars(sel.op) \o <<" ">>
           \o QueryString(sel.right)

\* The rendering faulted.
Faulted(cs) == \E i \in 1..Len(cs) : cs[i] = Panic

(***************************************************************************)
(* The plan the engine runs: the parsed plan with its keys and string      *)
(* values as strings.                                                      *)
(***************************************************************************)
RECURSIVE PlanOf(_), SelectorOf(_)
PlanOf(q) ==
    CASE q.q = "map"    -> MapQuery(Str(q.key))
      [] q.q = "walk"   -> WalkQuery(Str(q.key))
      [] q.q = "value"  -> IF q.n.t = "string" THEN ValueQuery(StringValue(Str(q.n.s)))
                           ELSE q
      [] q.q = "filter" -> FilterQuery([i \in 1..Len(q.qs) |-> PlanOf(q.qs[i])])
      [] q.q = "select" -> SelectQuery(SelectorOf(q.sel))
      [] OTHER          -> q

SelectorOf(sel) ==
    CASE sel.s = "and" -> And([i \in 1..Len(sel.ss) |-> SelectorOf(sel.ss[i])])
      [] sel.s = "or"  -> Or([i \in 1..Len(sel.ss) |-> SelectorOf(sel.ss[i])])
      [] sel.s = "cmp" -> Comparator(PlanOf(sel.left), sel.op, PlanOf(sel.right))
      [] OTHER         -> sel

(***************************************************************************)
(* Edit.  While an Edit runs every non-nil Array of the tree is boxed in   *)
(* an arrayHolder.  A Map and an arrayHolder are references: the model     *)
(* gives each an id, the working sets hold nodes with their ids, and a     *)
(* node is read from and written to the tree through its id.               *)
(***************************************************************************)
\* holdArray, giving the boxed tree its ids: id is the id of n.
RECURSIVE holdArray(_, _)
holdArray(n, id) ==
    IF IsArrayNode(n)
    THEN ArrayHolder([i \in 1..Len(n.a) |->
                        IF n.a[i] = GoNil THEN GoNil
                        ELSE holdArray(n.a[i], Append(id, Itoa(i - 1)))], id)
    ELSE IF IsMapNode(n)
    THEN [t |-> "map",
          m |-> [k \in DOMAIN n.m |->
                   IF n.m[k] = GoNil THEN GoNil
                   ELSE holdArray(n.m[k], Append(id, k))],
          id |-> id]
    ELSE n

\* unholdArray: every arrayHolder is a plain Array again.
RECURSIVE unholdArray(_)
unholdArray(n) ==
    IF IsArrayNode(n)
    THEN Array([i \in 1..Len(n.a) |->
                  IF n.a[i] = GoNil THEN GoNil ELSE unholdArray(n.a[i])])
    ELSE IF IsMapNode(n)
    THEN [t |-> "map",
          m |-> [k \in DOMAIN n.m |->
                   IF n.m[k] = GoNil THEN GoNil ELSE unholdArray(n.m[k])],
          id |-> NoId]
    ELSE n

\* The nodes of the tree of n, in the order of Walk.
RECURSIVE SubNodes(_), SubNodesAll(_)
SubNodes(n) == <<n>> \o SubNodesAll(Children(n))

SubNodesAll(ns) ==
    IF Len(ns) = 0 THEN <<>> ELSE SubNodes(Head(ns)) \o SubNodesAll(Tail(ns))

\* n is a reference the model follows.
Tracked(n) == n.t \in {"map", "holder"} /\ n.id # NoId

\* What the reference n points at in the tree T now.
Deref(T, n) ==
    LET ns == SubNodes(T)
        at == {i \in 1..Len(ns) : Tracked(ns[i]) /\ ns[i].id = n.id}
    IN IF Tracked(n) /\ at # {} THEN ns[CHOOSE i \in at : TRUE] ELSE n

\* The tree T after the node with the id became new.
RECURSIVE Put(_, _, _)
Put(T, id, new) ==
    IF Tracked(T) /\ T.id = id THEN new
    ELSE IF T.t \in {"array", "holder"}
    THEN [T EXCEPT !.a = [i \in 1..Len(T.a) |-> Put(T.a[i], id, new)]]
    ELSE IF T.t = "map"
    THEN [T EXCEPT !.m = [k \in DOMAIN T.m |-> Put(T.m[k], id, new)]]
    ELSE T

ErrCannotAppendMap == "cannot append to map"

ErrCannotAppend == "cannot append to"

ErrCannotDelete == "cannot delete"

ErrRuntimeNil == "runtime error: nil"

ErrUnsupportedQuery == "syntax error: unsupported edit query"

ErrUnsupportedOp == "syntax error: unsupported edit operation"

ErrInvalidEdit == "syntax error: invalid edit expression"

\* The outcome of a method of an EditorNode: the node after it and the error.
Done(n, err) == [n |-> n, err |-> err]

\* (*Array).Set as it would be if an index past the end appended v.
Array_Set_Append(h, key, v) ==
    LET ix == ToIndex(h, key) IN
    IF ix[1] = -1 THEN Done(h, ErrIndexKey)
    ELSE IF ix[2] THEN Done([h EXCEPT !.a[ix[1] + 1] = v], NoErr)
    ELSE Done([h EXCEPT !.a = Append(@, v)], NoErr)

\* (*Array).Set on the Array boxed in h.
Array_Set(h, key, v) ==
    LET ix == ToIndex(h, key)
        grown == IF ix[2] THEN h.a
                 ELSE [i \in 1..(ix[1] + 1) |->
                         IF i <= Len(h.a) THEN h.a[i] ELSE GoNil]
    IN IF ix[1] = -1 THEN Done(h, ErrIndexKey)
       ELSE Done([h EXCEPT !.a = [grown EXCEPT ![ix[1] + 1] = v]], NoErr)

\* (*Array).Append as it would be if it kept an element that is there once.
Array_Append_Once(h, v) ==
    IF \E i \in 1..Len(h.a) : h.a[i] = v THEN Done(h, NoErr)
    ELSE Done([h EXCEPT !.a = Append(@, v)], NoErr)

\* (*Array).Append.
Array_Append(h, v) == Done([h EXCEPT !.a = Append(@, v)], NoErr)

\* (*Array).Delete as it would be if it left a nil gap at the index.
Array_Delete_Gap(h, key) ==
    LET ix == ToIndex(h, key) IN
    IF ix[1] = -1 THEN Done(h, ErrIndexKey)
    ELSE IF ix[2] THEN Done([h EXCEPT !.a[ix[1] + 1] = GoNil], NoErr)
    ELSE Done(h, NoErr)

\* (*Array).Delete.
Array_Delete(h, key) ==
    LET ix == ToIndex(h, key) IN
    IF ix[1] = -1 THEN Done(h, ErrIndexKey)
    ELSE IF ix[2]
    THEN Done([h EXCEPT !.a = SubSeqOr(h.a, 1, ix[1])
                                \o SubSeqOr(h.a, ix[1] + 2, Len(h.a))], NoErr)
    ELSE Done(h, NoErr)

\* The key of a Map entry that Set and Delete use: <<key, ok>>.
MapKeyOf(key) ==
    IF key.k = "int" THEN <<Itoa(key.i), TRUE>>
    ELSE IF key.k = "str" THEN <<key.s, TRUE>>
    ELSE <<"", FALSE>>

\* Map.Set as it would be if it refused to replace an entry.
Map_Set_NoReplace(n, key, v) ==
    LET k == MapKeyOf(key)
        w == IF v.t = "map" THEN [v EXCEPT !.id = Append(n.id, k[1])] ELSE v
    IN IF ~k[2] \/ k[1] \in DOMAIN n.m THEN Done(n, ErrIndexKey)
       ELSE Done([n EXCEPT !.m = (k[1] :> w) @@ n.m], NoErr)

\* Map.Set: v is stored as it is; a Map that is stored becomes a reference
\* that the model follows.
Map_Set(n, key, v) ==
    LET k == MapKeyOf(key)
        w == IF v.t = "map" THEN [v EXCEPT !.id = Append(n.id, k[1])] ELSE v
    IN IF ~k[2] THEN Done(n, ErrIndexKey)
       ELSE Done([n EXCEPT !.m = (k[1] :> w) @@ n.m], NoErr)

\* Map.Delete.
Map_Delete(n, key) ==
    LET k == MapKeyOf(key) IN
    IF ~k[2] THEN Done(n, ErrIndexKey)
    ELSE Done([n EXCEPT !.m = [x \in (DOMAIN n.m) \ {k[1]} |-> n.m[x]]], NoErr)

\* arrayHolder.Set: holdArray(&v) runs first and faults on a nil v.
arrayHolder_Set(h, key, v) ==
    IF v = GoNil THEN Done(h, Panic)
    ELSE Array_Set(h, key, holdArray(v, Append(h.id, Itoa(ToIndex(h, key)[1]))))

\* arrayHolder.Append.
arrayHolder_Append(h, v) ==
    IF v = GoNil THEN Done(h, Panic)
    ELSE Array_Append(h, holdArray(v, Append(h.id, Itoa(Len(h.a)))))

\* EditorNode.Set, Append and Delete of a Map or an arrayHolder.
EditorNode_Set(n, key, v) ==
    IF n.t = "map" THEN Map_Set(n, key, v) ELSE arrayHolder_Set(n, key, v)

EditorNode_Append(n, v) ==
    IF n.t = "map" THEN Done(n, ErrCannotAppendMap) ELSE arrayHolder_Append(n, v)

EditorNode_Delete(n, key) ==
    IF n.t = "map" THEN Map_Delete(n, key) ELSE Array_Delete(n, key)

\* The outcome of a step of an edit: the boxed tree after it and the error.
Edited(T, err) == [T |-> T, err |-> err]

\* The tree after a method of the EditorNode n returned d.
Commit(T, n, d) ==
    IF d.err # NoErr THEN Edited(T, d.err) ELSE Edited(Put(T, n.id, d.n), NoErr)

\* The callback of WalkQuery.Set and WalkQuery.Delete at the node n: the
\* error of the EditorNode is dropped, a fault is not.
WalkEditAt(n, op, key, v) ==
    LET Dropped(d) == IF d.err = Panic THEN d ELSE Done(d.n, NoErr)
    IN IF Has(n, StrKey(key)) /\ IsEditorNode(n)
       THEN Dropped(IF op = "set" THEN EditorNode_Set(n, StrKey(key), v)
                    ELSE EditorNode_Delete(n, StrKey(key)))
       ELSE Done(n, NoErr)

\* The callback of WalkQuery.Append at the node n: Append on n.Get(key).
WalkAppendAt(n, key, v) ==
    LET Stored(d) ==
            IF d.err = Panic THEN Done(n, Panic)
            ELSE IF d.err # NoErr THEN Done(n, NoErr)
            ELSE IF n.t = "map"
            THEN Done([n EXCEPT !.m[ToKey(n, StrKey(key))[1]] = d.n], NoErr)
            ELSE Done([n EXCEPT !.a[ToIndex(n, StrKey(key))[1] + 1] = d.n], NoErr)
        AppendTo(nv) ==
            IF IsEditorNode(nv) THEN Stored(EditorNode_Append(nv, v))
            ELSE Done(n, NoErr)
    IN IF Has(n, StrKey(key)) THEN AppendTo(Get(n, StrKey(key)))
       ELSE Done(n, NoErr)

\* Walk with the callback of a WalkQuery edit: the callback at n, then the
\* walk of the children that n has after it, in the order of Each.
RECURSIVE WalkEdit(_, _, _, _), WalkEditEach(_, _, _, _, _)
WalkEdit(n, op, key, v) ==
    LET Into(d) ==
            IF d.err # NoErr THEN d
            ELSE IF d.n.t = "map"
            THEN WalkEditEach(d.n, MapKeys(d.n), op, key, v)
            ELSE IF d.n.t \in {"array", "holder"}
            THEN WalkEditEach(d.n, [i \in 1..Len(d.n.a) |-> i], op, key, v)
            ELSE d
    IN IF n = GoNil THEN Done(n, NoErr)
       ELSE Into(IF op = "append" THEN WalkAppendAt(n, key, v)
                 ELSE WalkEditAt(n, op, key, v))

\* The walk of the children of n under the keys ks.
WalkEditEach(n, ks, op, key, v) ==
    LET ChildOf(k) == IF n.t = "map" THEN n.m[k] ELSE n.a[k]
        With(k, c) == IF n.t = "map" THEN [n EXCEPT !.m[k] = c]
                      ELSE [n EXCEPT !.a[k] = c]
        Walked(n2, err) ==
            IF err # NoErr THEN Done(n2, err)
            ELSE WalkEditEach(n2, Tail(ks), op, key, v)
        After(k, d) == Walked(With(k, d.n), d.err)
    IN IF Len(ks) = 0 THEN Done(n, NoErr)
       ELSE After(Head(ks), WalkEdit(ChildOf(Head(ks)), op, key, v))

\* The tree after a WalkQuery edit that started at the node n.
WalkCommit(T, n, d) ==
    IF Tracked(n) THEN Edited(Put(T, n.id, d.n), d.err) ELSE Edited(T, d.err)

\* The key that MapQuery and ArrayQuery pass to the EditorNode.
EditKey(q) == IF q.q = "map" THEN StrKey(q.key) ELSE IntKey(q.i)

\* EditorQuery.Set(pn, v) with *pn = n.  top: pn is the root of Edit, so
\* that NopQuery.Set replaces the tree; otherwise pn is a loop variable.
EditorQuery_Set(T, n, q, v, top) ==
    CASE q.q = "nop"  -> IF top THEN Edited(v, NoErr) ELSE Edited(T, NoErr)
      [] q.q = "walk" -> WalkCommit(T, n, WalkEdit(n, "set", q.key, v))
      [] OTHER ->
           IF IsEditorNode(n) THEN Commit(T, n, EditorNode_Set(n, EditKey(q), v))
           ELSE Edited(T, IF q.q = "map" THEN ErrIndexKey ELSE ErrIndexInt)

\* EditorQuery.Append(pn, v).
EditorQuery_Append(T, n, q, v) ==
    LET Appended(x, d) ==
            IF d.err \in {NoErr, Panic} THEN Commit(T, x, d)
            ELSE Edited(T, ErrCannotAppend)
        AppendTo(x) ==
            IF IsEditorNode(x) THEN Appended(x, EditorNode_Append(x, v))
            ELSE Edited(T, ErrCannotAppend)
    IN CASE q.q = "nop"  -> AppendTo(n)
         [] q.q = "walk" -> WalkCommit(T, n, WalkEdit(n, "append", q.key, v))
         [] OTHER ->
              IF ~IsEditorNode(n) THEN Edited(T, ErrCannotAppend)
              ELSE IF Has(n, EditKey(q)) THEN AppendTo(Get(n, EditKey(q)))
              ELSE Commit(T, n, EditorNode_Set(n, EditKey(q), Array(<<v>>)))

\* EditorQuery.Delete(pn).
EditorQuery_Delete(T, n, q) ==
    LET Deleted(d) == IF d.err = NoErr THEN Commit(T, n, d)
                      ELSE Edited(T, ErrCannotDelete)
    IN CASE q.q = "nop"  -> Edited(T, ErrCannotDelete)
         [] q.q = "walk" -> WalkCommit(T, n, WalkEdit(n, "delete", q.key, GoNil))
         [] OTHER ->
              IF IsEditorNode(n) THEN Deleted(EditorNode_Delete(n, EditKey(q)))
              ELSE Edited(T, ErrCannotDelete)

IsEditorQuery(q) == q.q \in {"nop", "map", "array", "walk"}

\* execEdit.
execEdit(T, n, eq, op, v, top) ==
    CASE op \in {"=", "set"}        -> EditorQuery_Set(T, n, eq, v, top)
      [] op \in {"delete", "del"}   -> EditorQuery_Delete(T, n, eq)
      [] op \in {"+=", "append"}    -> EditorQuery_Append(T, n, eq, v)
      [] OTHER                      -> Edited(T, ErrUnsupportedOp)

\* The working set of an edit: the boxed tree, the nodes and the error.
Working(T, rs, err) == [T |-> T, rs |-> rs, err |-> err]

\* The body of the inner loop of FilterQuery.execForEdit for the node r: the
\* results of q on r, and when there are none and the next step is a MapQuery
\* or an ArrayQuery, an empty Map or Array set with q and q on r again.
ForEditAt(T, q, next, r) ==
    LET empty == IF next.q = "map" THEN EmptyMap ELSE Array(<<>>)
        Rerun(T2, again) == Working(T2, again.rs, again.err)
        Again(set) ==
            IF set.err # NoErr THEN Working(set.T, <<>>, set.err)
            ELSE Rerun(set.T, Exec(q, IF q.q = "nop" THEN empty
                                      ELSE Deref(set.T, r)))
        Found(n, nr) ==
            IF nr.err # NoErr THEN Working(T, <<>>, nr.err)
            ELSE IF Len(nr.rs) = 0 /\ next.q \in {"map", "array"}
                    /\ IsEditorQuery(q)
            THEN Again(EditorQuery_Set(T, n, q, empty, FALSE))
            ELSE Working(T, nr.rs, NoErr)
        At(n) == Found(n, Exec(q, n))
    IN At(Deref(T, r))

\* The inner loop of FilterQuery.execForEdit over the working set rs.
RECURSIVE ForEditEach(_, _, _, _)
ForEditEach(T, q, next, rs) ==
    LET Joined(one, rest) ==
            IF rest.err # NoErr THEN rest
            ELSE Working(rest.T, one.rs \o rest.rs, NoErr)
        Rest(one) ==
            IF one.err # NoErr THEN Working(one.T, <<>>, one.err)
            ELSE Joined(one, ForEditEach(one.T, q, next, Tail(rs)))
    IN IF Len(rs) = 0 THEN Working(T, <<>>, NoErr)
       ELSE IF Head(rs) = GoNil THEN ForEditEach(T, q, next, Tail(rs))
       ELSE Rest(ForEditAt(T, q, next, Head(rs)))

\* The outer loop of FilterQuery.execForEdit over the steps qs[i..] but the
\* last.
RECURSIVE ForEditSteps(_, _, _, _)
ForEditSteps(T, qs, i, rs) ==
    LET Stepped(nrs) == IF nrs.err # NoErr THEN nrs
                        ELSE ForEditSteps(nrs.T, qs, i + 1, nrs.rs)
    IN IF i >= Len(qs) THEN Working(T, rs, NoErr)
       ELSE IF qs[i].q = "slurp"
       THEN ForEditSteps(T, qs, i + 1,
                         SlurpQuery_Exec(ArrayOfResults(
                             [j \in 1..Len(rs) |-> Deref(T, rs[j])])).rs)
       ELSE Stepped(ForEditEach(T, qs[i], qs[i + 1], rs))

FilterQuery_execForEdit(T, qs, n) == ForEditSteps(T, qs, 1, <<n>>)

RECURSIVE editQuery(_, _, _, _, _, _), execForEdit(_, _, _, _, _),
          EditTargets(_, _, _, _, _)

\* The loop of execForEdit over the nodes nn: the last step q on each.
EditTargets(T, nn, q, op, v) ==
    LET Others(one) == IF one.err # NoErr THEN one
                       ELSE EditTargets(one.T, Tail(nn), q, op, v)
    IN IF Len(nn) = 0 THEN Edited(T, NoErr)
       ELSE IF Head(nn) = GoNil THEN Edited(T, ErrRuntimeNil)
       ELSE Others(editQuery(T, Deref(T, Head(nn)), q, op, v, FALSE))

execForEdit(T, n, fq, op, v) ==
    LET Targets(nn) == IF nn.err # NoErr THEN Edited(nn.T, nn.err)
                       ELSE EditTargets(nn.T, nn.rs, fq[Len(fq)], op, v)
    IN IF Len(fq) = 0 THEN Edited(T, NoErr)
       ELSE Targets(IF Len(fq) > 1 THEN FilterQuery_execForEdit(T, fq, n)
                    ELSE Working(T, <<n>>, NoErr))

editQuery(T, n, q, op, v, top) ==
    IF q.q = "filter" THEN execForEdit(T, n, q.qs, op, v)
    ELSE IF IsEditorQuery(q) THEN execEdit(T, n, q, op, v, top)
    ELSE Edited(T, ErrUnsupportedQuery)

\* Edit as it would be if unholdArray ran before a nil return only, not
\* deferred.
EditOf_UnholdOnSuccess(root, left, op, v) ==
    LET Unheld(done) == IF done.T = GoNil THEN Edited(GoNil, Panic)
                        ELSE IF done.err # NoErr THEN done
                        ELSE Edited(unholdArray(done.T), done.err)
        Run(held, q) == Unheld(editQuery(held, held, q, op, v, TRUE))
        Planned(parsed) ==
            IF parsed.err # NoErr THEN Edited(root, parsed.err)
            ELSE IF root = GoNil THEN Edited(root, Panic)
            ELSE Run(holdArray(root, <<>>), PlanOf(parsed.q))
    IN Planned(ParseQuery(left))

\* Edit(pn, expr) with *pn = root, and expr split by editRegexp in left, op
\* and the node v of right: the root afterwards and the error.  The
\* deferred unholdArray runs on every way out after holdArray, and faults
\* when the root has become nil.
EditOf(root, left, op, v) ==
    LET Unheld(done) == IF done.T = GoNil THEN Edited(GoNil, Panic)
                        ELSE Edited(unholdArray(done.T), done.err)
        Run(held, q) == Unheld(editQuery(held, held, q, op, v, TRUE))
        Planned(parsed) ==
            IF parsed.err # NoErr THEN Edited(root, parsed.err)
            ELSE IF root = GoNil THEN Edited(root, Panic)
            ELSE Run(holdArray(root, <<>>), PlanOf(parsed.q))
    IN Planned(ParseQuery(left))

\* The operations of editRegexp, in the order of its alternation.
EditOpChars ==
    <<<<"=">>, <<"+", "=">>, <<"s", "e", "t">>,
      <<"a", "p", "p", "e", "n", "d">>, <<"a", "d", "d">>,
      <<"d", "e", "l", "e", "t", "e">>, <<"d", "e", "l">>>>

\* The alternative of (=|\+=|set|append|add|delete|del) that matches at i:
\* the first in order, or <<>> when none does.
EditOpAt(cs, i) ==
    IF \E k \in 1..Len(EditOpChars) : StartsWith(cs, i, EditOpChars[k])
    THEN EditOpChars[CHOOSE k \in 1..Len(EditOpChars) :
            /\ StartsWith(cs, i, EditOpChars[k])
            /\ \A h \in 1..(k - 1) : ~StartsWith(cs, i, EditOpChars[h])]
    ELSE <<>>

\* The lengths of group 1 with which `(.+) (op) ?(.*)` matches.
EditSplits(cs) ==
    {i \in 1..Len(cs) : StartsWith(cs, i + 1, <<" ">>) /\ EditOpAt(cs, i + 2) # <<>>}

\* editRegexp.FindStringSubmatch(expr): (.+) is greedy, so group 1 is the
\* longest text that an operation follows; ` ?` takes a space when there
\* is one and group 3 is the rest.  m1 is empty when there is no match.
editRegexp_FindStringSubmatch(cs) ==
    IF EditSplits(cs) = {} THEN Match(<<>>, <<>>, <<>>)
    ELSE LET i == CHOOSE x \in EditSplits(cs) : \A y \in EditSplits(cs) : y <= x
             op == EditOpAt(cs, i + 2)
             r == i + 2 + Len(op)
         IN Match(SubSeq(cs, 1, i), op,
                  IF StartsWith(cs, r, <<" ">>) THEN SubSeq(cs, r + 1, Len(cs))
                  ELSE SubSeq(cs, r, Len(cs)))

ErrJSON == "invalid character"

\* UnmarshalJSON on the right sides of the model: a string in quotes, a
\* number, true, false, null; any other text is an error of the decoder.
UnmarshalJSON(cs) ==
    IF Len(cs) >= 2 /\ cs[1] = Quote /\ QuoteEnd(cs, 1) = Len(cs)
    THEN Done(StringValue(Str(SubSeq(cs, 2, Len(cs) - 1))), NoErr)
    ELSE IF IsDigits(cs) THEN Done(NumberValue(DecimalOf(cs)), NoErr)
    ELSE IF cs = <<"t", "r", "u", "e">> THEN Done(BoolValue(TRUE), NoErr)
    ELSE IF cs = <<"f", "a", "l", "s", "e">> THEN Done(BoolValue(FALSE), NoErr)
    ELSE IF cs = <<"n", "u", "l", "l">> THEN Done(Nil, NoErr)
    ELSE Done(GoNil, ErrJSON)

\* Edit(pn, expr) from the text of expr: the split, the node of the right
\* side, then the edit.
EditExprOf(root, expr) ==
    LET WithValue(ms, v) ==
            IF v.err # NoErr THEN Edited(root, v.err)
            ELSE EditOf(root, ms.m1, Str(ms.m2), v.n)
        Split(ms) ==
            IF ms.m1 = <<>> THEN Edited(root, ErrInvalidEdit)
            ELSE WithValue(ms, IF ms.m3 = <<>> THEN Done(GoNil, NoErr)
                               ELSE UnmarshalJSON(ms.m3))
    IN Split(editRegexp_FindStringSubmatch(expr))

(***************************************************************************)
(* The trees and the plans the model runs.                                 *)
(***************************************************************************)
\* Map{k: v}.
Map1(k, v) == Map([x \in {k} |-> v])

\* Map{k1: v1, k2: v2}.
Map2(k1, v1, k2, v2) == Map([x \in {k1, k2} |-> IF x = k1 THEN v1 ELSE v2])

\* [{"k":1},{"k":2},{"k":3}]
ArrayOfMaps ==
    Array(<<Map1("k", NumberValue(1)), Map1("k", NumberValue(2)),
            Map1("k", NumberValue(3))>>)

\* {"a":[{"k":1,"name":"x"},"y",{"name":"y"}],"name":"xy"}
Store ==
    Map2("a", Array(<<Map2("k", NumberValue(1), "name", StringValue("x")),
                      StringValue("y"),
                      Map1("name", StringValue("y"))>>),
         "name", StringValue("xy"))

\* {"name":{"name":"x","k":2},"k":{"name":"y"}}
Nested ==
    Map2("name", Map2("name", StringValue("x"), "k", NumberValue(2)),
         "k", Map1("name", StringValue("y")))

\* [[nil,"x"],{"0":"y","k":null}]: a gap left by Array.Set and a null.
Gapped ==
    Array(<<Array(<<GoNil, StringValue("x")>>),
            Map2("0", StringValue("y"), "k", Nil)>>)

\* [nil,{"k":1}]
GapFirst == Array(<<GoNil, Map1("k", NumberValue(1))>>)

\* {"a":nil,"k":{"a":true}}: a map entry whose value is nil.
NilEntry == Map2("a", GoNil, "k", Map1("a", BoolValue(TRUE)))

InitTrees ==
    {ArrayOfMaps, Store, Nested, Gapped, GapFirst, NilEntry,
     Array(<<>>), EmptyMap, NilArray,
     StringValue("x"), NumberValue(1), BoolValue(TRUE), Nil}

\* [.k == 1]
SelK1 == And(<<Comparator(MapQuery("k"), "==", ValueQuery(NumberValue(1)))>>)

\* [.name == "y" or .k >= 2]
SelOr ==
    Or(<<Comparator(MapQuery("name"), "==", ValueQuery(StringValue("y"))),
         Comparator(MapQuery("k"), ">=", ValueQuery(NumberValue(2)))>>)

\* [. != "y"]
SelNotY == And(<<Comparator(NopQuery, "!=", ValueQuery(StringValue("y")))>>)

Selectors == {SelK1, SelOr, SelNotY}

\* The single steps of a path.
Steps ==
    {NopQuery, SlurpQuery, SelectQuery(NoSelector)}
    \cup {MapQuery(k) : k \in {"a", "k", "name", "0"}}
    \cup {ArrayQuery(i) : i \in 0..MaxIndex}
    \cup {WalkQuery(k) : k \in {"name", "0"}}
    \cup {SelectQuery(s) : s \in Selectors}
    \cup {ArrayRangeQuery(r) : r \in {<<0, 1>>, <<1, -1>>, <<0, 2>>, <<-1, 1>>}}

\* The plans Exec runs: single steps and pipelines of two to four steps.
Queries ==
    Steps
    \cup {FilterQuery(<<a, b>>) : a \in Steps, b \in Steps}
    \cup {FilterQuery(<<a, b, c>>) :
            a \in {MapQuery("a"), SelectQuery(NoSelector), WalkQuery("name")},
            b \in Steps, c \in Steps}
    \cup {FilterQuery(<<SelectQuery(NoSelector), MapQuery("k"), SlurpQuery, c>>) :
            c \in Steps}

(***************************************************************************)
(* The registry of method-query factories: the map newMethodQueryFuncs,    *)
(* the lock methodQueryMux and the goroutines that register and look up.   *)
(* Each goroutine has a stack of the calls it is in, one frame for each    *)
(* RegisterNewMethodQueryFunc or NewMethodQuery; pc is the place in the    *)
(* function: "lock" before Lock returns, "access" at the map, "call" at    *)
(* fn(args...), "wait" while fn runs a call of its own, "unlock" at the    *)
(* deferred Unlock.                                                        *)
(***************************************************************************)
Goroutines == 1..NumProcs

\* methodQueryMux is free.
Free == 0

\* No entry in the map for the name.
NoFunc == "none"

\* The method names: a built-in, one that callers register, and one that
\* nobody registers.
Methods == {"count", "m", "x"}

\* The factories callers register: one that returns a query, one that
\* calls NewMethodQuery("count"), and one that registers "m" itself.
CallerFuncs == {"plain", "nestedNew", "nestedReg"}

\* The registrations callers make.
Registrations == [method : {"count", "m"}, fn : CallerFuncs]

ErrUnknownMethod(method) == "unknown method: " \o method

Frame(op, method, fn) ==
    [op |-> op, method |-> method, fn |-> fn, pc |-> "lock", q |-> "",
     err |-> NoErr]

\* What a lookup returned to the goroutine.
Got(method, q, err) == [method |-> method, q |-> q, err |-> err]

Top(p) == frames[p][Len(frames[p])]

\* The frame on top of the stack of p is at pc.
At(p, pc) == Len(frames[p]) > 0 /\ Top(p).pc = pc

\* The stack of p with its top frame replaced.
WithTop(p, frame) == [frames EXCEPT ![p][Len(frames[p])] = frame]

\* init(): the built-ins are registered before any goroutine runs.
InitRegistry ==
    /\ funcs = [m \in Methods |-> IF m = "count" THEN "NewCountQuery" ELSE NoFunc]
    /\ regd = [m \in Methods |-> IF m = "count" THEN "NewCountQuery" ELSE NoFunc]
    /\ mux = Free
    /\ frames = [p \in Goroutines |-> <<>>]
    /\ got = [p \in Goroutines |-> Got("", "", NoErr)]

\* A goroutine calls RegisterNewMethodQueryFunc(method, fn).
RegisterCall(p, r) ==
    /\ frames[p] = <<>>
    /\ frames' = [frames EXCEPT ![p] = <<Frame("register", r.method, r.fn)>>]
    /\ UNCHANGED <<funcs, mux, regd, got>>
    /\ UNCHANGED nodevars
    /\ UNCHANGED walkvars

\* A goroutine calls NewMethodQuery(method).
NewCall(p, method) ==
    /\ frames[p] = <<>>
    /\ frames' = [frames EXCEPT ![p] = <<Frame("new", method, "")>>]
    /\ UNCHANGED <<funcs, mux, regd, got>>
    /\ UNCHANGED nodevars
    /\ UNCHANGED walkvars

\* Lock as it would be if it returned without waiting for the lock.
Lock_NoWait(p) ==
    /\ At(p, "lock")
    /\ mux' = p
    /\ frames' = WithTop(p, [Top(p) EXCEPT !.pc = "access"])
    /\ UNCHANGED <<funcs, regd, got>>
    /\ UNCHANGED nodevars
    /\ UNCHANGED walkvars

\* methodQueryMux.Lock() returns: the lock was free.
Lock(p) ==
    /\ At(p, "lock")
    /\ mux = Free
    /\ mux' = p
    /\ frames' = WithTop(p, [Top(p) EXCEPT !.pc = "access"])
    /\ UNCHANGED <<funcs, regd, got>>
    /\ UNCHANGED nodevars
    /\ UNCHANGED walkvars

\* newMethodQueryFuncs[method] = fn
RegisterWrite(p) ==
    /\ At(p, "access") /\ Top(p).op = "register"
    /\ funcs' = [funcs EXCEPT ![Top(p).method] = Top(p).fn]
    /\ frames' = WithTop(p, [Top(p) EXCEPT !.pc = "unlock"])
    /\ UNCHANGED <<mux, regd, got>>
    /\ UNCHANGED nodevars
    /\ UNCHANGED walkvars

\* fn, ok := newMethodQueryFuncs[method], and the return when !ok.
NewRead(p) ==
    /\ At(p, "access") /\ Top(p).op = "new"
    /\ frames' = WithTop(p,
          IF funcs[Top(p).method] = NoFunc
          THEN [Top(p) EXCEPT !.pc = "unlock",
                              !.err = ErrUnknownMethod(Top(p).method)]
          ELSE [Top(p) EXCEPT !.pc = "call", !.fn = funcs[Top(p).method]])
    /\ UNCHANGED <<funcs, mux, regd, got>>
    /\ UNCHANGED nodevars
    /\ UNCHANGED walkvars

\* return fn(args...): the factory runs in the goroutine, inside
\* NewMethodQuery; a factory that calls the registry pushes that call.
FactoryCall(p) ==
    /\ At(p, "call")
    /\ frames' =
         CASE Top(p).fn = "NewCountQuery" ->
                WithTop(p, [Top(p) EXCEPT !.pc = "unlock", !.q = "count()"])
           [] Top(p).fn = "plain" ->
                WithTop(p, [Top(p) EXCEPT !.pc = "unlock", !.q = "plain()"])
           [] Top(p).fn = "nestedNew" ->
                [frames EXCEPT ![p] =
                    Append(WithTop(p, [Top(p) EXCEPT !.pc = "wait"])[p],
                           Frame("new", "count", ""))]
           [] Top(p).fn = "nestedReg" ->
                [frames EXCEPT ![p] =
                    Append(WithTop(p, [Top(p) EXCEPT !.pc = "wait"])[p],
                           Frame("register", "m", "plain"))]
    /\ UNCHANGED <<funcs, mux, regd, got>>
    /\ UNCHANGED nodevars
    /\ UNCHANGED walkvars

\* The deferred methodQueryMux.Unlock() and the return: to the goroutine,
\* or to the factory that made the call, whose result is the call's.
Unlock(p) ==
    /\ At(p, "unlock")
    /\ mux' = Free
    /\ regd' = IF Top(p).op = "register"
               THEN [regd EXCEPT ![Top(p).method] = Top(p).fn] ELSE regd
    /\ frames' =
         IF Len(frames[p]) = 1 THEN [frames EXCEPT ![p] = <<>>]
         ELSE [frames EXCEPT ![p] =
                 Append(SubSeq(frames[p], 1, Len(frames[p]) - 2),
                        [frames[p][Len(frames[p]) - 1] EXCEPT
                            !.pc = "unlock", !.q = Top(p).q, !.err = Top(p).err])]
    /\ got' = IF Len(frames[p]) = 1 /\ Top(p).op = "new"
              THEN [got EXCEPT ![p] = Got(Top(p).method, Top(p).q, Top(p).err)]
              ELSE got
    /\ UNCHANGED funcs
    /\ UNCHANGED nodevars
    /\ UNCHANGED walkvars

(***************************************************************************)
(* The state machine: a root node, the last call and what it returned.     *)
(***************************************************************************)
NoCall == [op |-> "none"]

Init ==
    /\ tree \in InitTrees
    /\ call = NoCall
    /\ ret = Out(<<>>, NoErr)
    /\ nedits = 0
    /\ InitRegistry
    /\ heap = <<>>
    /\ wstack = <<>>

\* The caller takes the result of the last call: the next call may start.
Return ==
    /\ call # NoCall
    /\ call' = NoCall
    /\ ret' = Out(<<>>, NoErr)
    /\ UNCHANGED <<tree, nedits>>
    /\ UNCHANGED regvars
    /\ UNCHANGED walkvars

\* q.Exec(n) on the root, the call Find makes with the plan of its expr.
QueryExec(q) ==
    /\ call = NoCall
    /\ call' = [op |-> "exec", q |-> q]
    /\ ret' = Exec(q, tree)
    /\ UNCHANGED <<tree, nedits>>
    /\ UNCHANGED regvars
    /\ UNCHANGED walkvars

NextExec == (\E q \in Queries : QueryExec(q)) \/ Return

SpecExec == Init /\ [][NextExec]_vars

\* The operand queries of the comparators that Matches is called with.
Operands ==
    {NopQuery, MapQuery("k"), MapQuery("a"), MapQuery("name"),
     SelectQuery(NoSelector)}
    \cup {ValueQuery(v) : v \in {StringValue("x"), StringValue("xy"),
                                  StringValue("^x"), StringValue("("),
                                  NumberValue(1), Nil}}

Operators == {"==", ">", ">=", "<", "<=", "!=", "~="}

Comparators ==
    {Comparator(l, op, r) : l \in Operands, op \in Operators, r \in Operands}

\* The selectors Matches is called with.
MatchSelectors ==
    Comparators \cup Selectors
    \cup {And(<<SelK1, SelNotY>>), Or(<<SelNotY, SelK1>>), And(<<>>), Or(<<>>)}

\* sel.Matches(n) on the root.
MatchesCall(sel) ==
    /\ call = NoCall
    /\ call' = [op |-> "matches", sel |-> sel]
    /\ ret' = Matches(sel, tree)
    /\ UNCHANGED <<tree, nedits>>
    /\ UNCHANGED regvars
    /\ UNCHANGED walkvars

NextMatches == (\E sel \in MatchSelectors : MatchesCall(sel)) \/ Return

SpecMatches == Init /\ [][NextMatches]_vars

\* The keys of the paths Has and Get are called with.
PathKeys ==
    {IntKey(i) : i \in -1..MaxIndex}
    \cup {StrKey(k) : k \in {"0", "1", "a", "k"}} \cup {OtherKey}

\* The key paths of up to three keys.
KeyPaths ==
    {<<>>} \cup {<<a>> : a \in PathKeys}
    \cup {<<a, b>> : a \in PathKeys, b \in PathKeys}
    \cup {<<a, b, c>> : a \in PathKeys, b \in PathKeys, c \in PathKeys}

\* n.Has(keys...) and n.Get(keys...) on the root.
HasGet(keys) ==
    /\ call = NoCall
    /\ call' = [op |-> "node", keys |-> keys]
    /\ ret' = [has |-> HasKeys(tree, keys), get |-> GetKeys(tree, keys)]
    /\ UNCHANGED <<tree, nedits>>
    /\ UNCHANGED regvars
    /\ UNCHANGED walkvars

NextNode == (\E keys \in KeyPaths : HasGet(keys)) \/ Return

SpecNode == Init /\ [][NextNode]_vars

\* The values that Set stores: scalars, a Map, and nil.
SetValues == {StringValue("x"), NumberValue(1), Map1("k", NumberValue(1)), GoNil}

\* a.Set(key, v) on the root when it is an Array (the nil Array included:
\* Set makes a slice when it grows).
ArraySet(key, v) ==
    /\ call = NoCall
    /\ nedits < MaxSets
    /\ tree.t = "array"
    /\ \E done \in {Array_Set(tree, key, v)} :
          /\ tree' = [done.n EXCEPT !.isnil = tree.isnil /\ done.err # NoErr]
          /\ ret' = [err |-> done.err]
    /\ call' = [op |-> "set", key |-> key, v |-> v, root |-> tree]
    /\ nedits' = nedits + 1
    /\ UNCHANGED regvars
    /\ UNCHANGED walkvars

NextSet == (\E key \in PathKeys, v \in SetValues : ArraySet(key, v)) \/ Return

SpecSet == Init /\ [][NextSet]_vars

NextRegistry ==
    \E p \in Goroutines :
       \/ \E r \in Registrations : RegisterCall(p, r)
       \/ \E method \in Methods : NewCall(p, method)
       \/ Lock(p)
       \/ RegisterWrite(p)
       \/ NewRead(p)
       \/ FactoryCall(p)
       \/ Unlock(p)

\* The process after init(): no goroutine is in the registry.
InitGoroutines ==
    /\ Init
    /\ tree = Nil

\* The registry as the goroutines of a process use it.
SpecRegistry == InitGoroutines /\ [][NextRegistry]_vars

\* The pieces of the expressions that are parsed.
\* .a  .k  ..a  .  ."a"  ."a b"  x   |
PathSegments ==
    {<<".", "a">>, <<".", "k">>, <<".", ".", "a">>, <<".">>,
     <<".", Quote, "a", Quote>>, <<".", Quote, "a", " ", "b", Quote>>,
     <<"x">>, <<" ", "|", " ">>}

\* [0]  [1]  []  [0:1]  [1:]  [:1]  [  ]  (  )
BracketSegments ==
    {<<"[", "0", "]">>, <<"[", "1", "]">>, <<"[", "]">>,
     <<"[", "0", ":", "1", "]">>, <<"[", "1", ":", "]">>,
     <<"[", ":", "1", "]">>, <<"[">>, <<"]">>, <<"(">>, <<")">>}

\* .a == 1
CmpA1 == <<".", "a", " ", "=", "=", " ", "1">>

\* .k != "x"
CmpKx == <<".", "k", " ", "!", "=", " ", Quote, "x", Quote>>

\* .k >= 2
CmpK2 == <<".", "k", " ", ">", "=", " ", "2">>

\* .a<1
LtA1 == <<".", "a", "<", "1">>

\* .k>2
GtK2 == <<".", "k", ">", "2">>

\* The operators between the operands of a selector.
AndChars == <<" ", "a", "n", "d", " ">>

OrChars == <<" ", "o", "r", " ">>

\* [.a == 1]  [.k != "x" and .a == 1]  [.a == 1 or .k >= 2]
\* [(.a == 1)]  [.a == 1 and .k >= 2 or .k != "x"]
\* [(.a<1 or .k>2) and .a<1]  [.a<1 and (.k>2 or .a<1)]
\* [.a<1 or (.k>2 and .a<1 or .k>2)]  [(.a<1 or .k>2) and .a<1 or .k>2]
SelectSegments ==
    {<<"[">> \o CmpA1 \o <<"]">>,
     <<"[">> \o CmpKx \o AndChars \o CmpA1 \o <<"]">>,
     <<"[">> \o CmpA1 \o OrChars \o CmpK2 \o <<"]">>,
     <<"[", "(">> \o CmpA1 \o <<")", "]">>,
     <<"[">> \o CmpA1 \o AndChars \o CmpK2 \o OrChars \o CmpKx \o <<"]">>,
     <<"[", "(">> \o LtA1 \o OrChars \o GtK2 \o <<")">> \o AndChars
            \o LtA1 \o <<"]">>,
     <<"[">> \o LtA1 \o AndChars \o <<"(">> \o GtK2 \o OrChars \o LtA1
            \o <<")", "]">>,
     <<"[">> \o LtA1 \o OrChars \o <<"(">> \o GtK2 \o AndChars \o LtA1
            \o OrChars \o GtK2 \o <<")", "]">>,
     <<"[", "(">> \o LtA1 \o OrChars \o GtK2 \o <<")">> \o AndChars
            \o LtA1 \o OrChars \o GtK2 \o <<"]">>}

Segments == PathSegments \cup BracketSegments \cup SelectSegments

\* The expressions that are parsed: one or two pieces, at most one of them
\* a selector.
Exprs ==
    Segments
    \cup {a \o b : a \in Segments, b \in Segments \ SelectSegments}
    \cup {a \o b : a \in Segments \ SelectSegments, b \in SelectSegments}

\* ParseQuery(expr), then String() of the plan and ParseQuery of that text.
ParseCall(expr) ==
    /\ call = NoCall
    /\ call' = [op |-> "parse", expr |-> expr]
    /\ ret' = LET p == ParseQuery(expr)
                  text == IF p.err = NoErr THEN QueryString(p.q) ELSE <<>>
              IN [q |-> p.q, err |-> p.err, text |-> text,
                  again |-> IF p.err = NoErr /\ ~Faulted(text)
                            THEN ParseQuery(text) ELSE Parsed(NoQuery, NoErr)]
    /\ UNCHANGED <<tree, nedits>>
    /\ UNCHANGED regvars
    /\ UNCHANGED walkvars

NextParse == (\E expr \in Exprs : ParseCall(expr)) \/ Return

SpecParse == Init /\ [][NextParse]_vars

\* The left sides of the edit expressions:
\* .  .a  .k  .a.b.c  .a[0]  [0][1]  .0.1  [0]  [2]  [0].a
\* [].k  [.k == 1].a  ..name  .a[]  [
EditPaths ==
    {<<".">>, <<".", "a">>, <<".", "k">>,
     <<".", "a", ".", "b", ".", "c">>, <<".", "a", "[", "0", "]">>,
     <<"[", "0", "]", "[", "1", "]">>, <<".", "0", ".", "1">>,
     <<"[", "0", "]">>, <<"[">> \o ItoaChars(MaxIndex) \o <<"]">>,
     <<"[", "0", "]", ".", "a">>,
     <<"[", "]", ".", "k">>,
     <<"[", ".", "k", " ", "=", "=", " ", "1", "]", ".", "a">>,
     <<"[", ".", "k", " ", "=", "=", " ", "1", "]", ".", "k">>,
     <<".", ".", "n", "a", "m", "e">>, <<".", "a", "[", "]">>, <<"[">>}

\* The operations that editRegexp accepts; execEdit has no case for add.
EditOps == {"=", "+=", "delete", "add"}

\* The nodes of the right sides; nil is the node of an empty right side.
EditValues ==
    {StringValue("x"), NumberValue(1), EmptyMap, Array(<<>>),
     Array(<<Array(<<NumberValue(1)>>)>>), Map1("k", NumberValue(1)), GoNil}

\* Every step of the plan yields at most one node, so that the edit has one
\* target.
RECURSIVE SingleTarget(_)
SingleTarget(q) ==
    \/ q.q \in {"nop", "map", "array"}
    \/ q.q = "filter" /\ \A i \in 1..Len(q.qs) : SingleTarget(q.qs[i])

\* The edits the model runs.  A container is set or appended at one target
\* only: the trees of the model share no node.
EditInputs ==
    {e \in [left : EditPaths, op : EditOps, v : EditValues] :
        /\ e.op = "delete" => e.v = GoNil
        /\ \/ e.v = GoNil \/ IsValue(e.v)
           \/ ParseQuery(e.left).err # NoErr
           \/ SingleTarget(PlanOf(ParseQuery(e.left).q))}

\* Edit(&root, expr).
Edit(e) ==
    /\ call = NoCall
    /\ nedits < MaxEdits
    /\ \E done \in {EditOf(tree, e.left, e.op, e.v)} :
          /\ tree' = done.T
          /\ ret' = [err |-> done.err]
    /\ call' = [op |-> "edit", left |-> e.left, eop |-> e.op, v |-> e.v,
                root |-> tree]
    /\ nedits' = nedits + 1
    /\ UNCHANGED regvars
    /\ UNCHANGED walkvars

NextEdit == (\E e \in EditInputs : Edit(e)) \/ Return

SpecEdit == Init /\ [][NextEdit]_vars

\* Edit(&root, expr) with the expression of the call before it, or a first
\* Edit: the caller applies one expression to the root again and again.
\* The call keeps the root before the first application and the errors of
\* the applications so far.
Reapply(e) ==
    /\ nedits < MaxRepeats
    /\ \/ call = NoCall
       \/ /\ call.op = "edit"
          /\ call.left = e.left /\ call.eop = e.op /\ call.v = e.v
    /\ \E done \in {EditOf(tree, e.left, e.op, e.v)} :
          /\ tree' = done.T
          /\ ret' = [err |-> done.err]
          /\ call' = [op |-> "edit", left |-> e.left, eop |-> e.op, v |-> e.v,
                      root |-> tree,
                      first |-> IF call = NoCall THEN tree ELSE call.first,
                      errs |-> IF call = NoCall THEN <<done.err>>
                               ELSE Append(call.errs, done.err)]
    /\ nedits' = nedits + 1
    /\ UNCHANGED regvars
    /\ UNCHANGED walkvars

NextRepeat == \E e \in EditInputs : Reapply(e)

SpecRepeat == Init /\ [][NextRepeat]_vars

(***************************************************************************)
(* Helpers of the properties.                                              *)
(***************************************************************************)
Front(s) == SubSeq(s, 1, Len(s) - 1)

Last(s) == s[Len(s)]

\* The results of q on every non-nil node of rs, in the order of rs.
RECURSIVE ConcatOfExec(_, _)
ConcatOfExec(q, rs) ==
    IF Len(rs) = 0 THEN <<>>
    ELSE ConcatOfExec(q, Front(rs))
         \o (IF Last(rs) = GoNil THEN <<>> ELSE Exec(q, Last(rs)).rs)

\* q fails on some non-nil node of rs.
SomeExecFails(q, rs) ==
    \E i \in 1..Len(rs) : rs[i] # GoNil /\ Exec(q, rs[i]).err # NoErr

\* The keys of the children of a node, as strings.
ChildKeys(n) ==
    IF n.t \in {"array", "holder"} THEN {Itoa(i - 1) : i \in 1..Len(n.a)}
    ELSE IF n.t = "map" THEN DOMAIN n.m
    ELSE {}

\* The child of n under one of its ChildKeys.
ChildAt(n, k) == IF n.t = "map" THEN n.m[k] ELSE n.a[Atoi(k) + 1]

\* The paths from n to the non-nil nodes of its tree, n's own path first.
RECURSIVE PathsOf(_)
PathsOf(n) ==
    IF n = GoNil THEN {}
    ELSE {<<>>} \cup UNION {{<<k>> \o p : p \in PathsOf(ChildAt(n, k))} :
                             k \in ChildKeys(n)}

RECURSIVE NodeAt(_, _)
NodeAt(n, p) == IF Len(p) = 0 THEN n ELSE NodeAt(ChildAt(n, Head(p)), Tail(p))

\* The paths of the nodes of the tree of n that have the key.
PathsWithKey(n, key) == {p \in PathsOf(n) : Has(NodeAt(n, p), StrKey(key))}

\* p is a proper prefix of r.
ProperPrefix(p, r) == Len(p) < Len(r) /\ SubSeq(r, 1, Len(p)) = p

\* How often x occurs in the sequence s.
CountIn(s, x) == Cardinality({i \in 1..Len(s) : s[i] = x})

(***************************************************************************)
(* C1.  FilterQuery.Exec threads a working set through its steps: the      *)
(* working set after a step that is not a Slurp is the concatenation, in   *)
(* order, of the step's results on every non-nil node of the working set   *)
(* before it, which starts as [n]; the last working set is the result.     *)
(* When the step fails on a node the pipeline fails.                       *)
(***************************************************************************)
C1_FilterThreadsWorkingSet ==
    (call.op = "exec" /\ call.q.q = "filter" /\ Len(call.q.qs) > 0
       /\ Last(call.q.qs).q # "slurp")
    => LET step == Last(call.q.qs)
           prev == Exec(FilterQuery(Front(call.q.qs)), tree)
       IN /\ Exec(FilterQuery(<<>>), tree) = Out(<<tree>>, NoErr)
          /\ prev.err # NoErr => ret.err = prev.err
          /\ (prev.err = NoErr /\ SomeExecFails(step, prev.rs))
                => ret.err # NoErr /\ ret.rs = <<>>
          /\ (prev.err = NoErr /\ ~SomeExecFails(step, prev.rs))
                => ret = Out(ConcatOfExec(step, prev.rs), NoErr)
          /\ (tree = ArrayOfMaps
              /\ call.q = FilterQuery(<<SelectQuery(NoSelector), MapQuery("k")>>))
                => ret.rs = <<NumberValue(1), NumberValue(2), NumberValue(3)>>

\* A pipeline of three steps whose last step ran on a working set of several
\* nodes, one of them nil, and produced a result.
C1_Witness ==
    /\ call.op = "exec" /\ call.q.q = "filter" /\ Len(call.q.qs) = 3
    /\ Last(call.q.qs).q # "slurp"
    /\ ret.err = NoErr /\ Len(ret.rs) > 1
    /\ LET prev == Exec(FilterQuery(Front(call.q.qs)), tree)
       IN Len(prev.rs) > 1 /\ \E i \in 1..Len(prev.rs) : prev.rs[i] = GoNil

KeyRank(k) == CHOOSE i \in 1..Len(KeyOrder) : KeyOrder[i] = k

\* The keys of the Map n, each once, in ascending order.
AscendingKeys(n) ==
    CHOOSE ks \in [1..Cardinality(DOMAIN n.m) -> DOMAIN n.m] :
        \A i, j \in DOMAIN ks : i < j => KeyRank(ks[i]) < KeyRank(ks[j])

(***************************************************************************)
(* C7 as stated.  Comparator.Matches when a side yields no result: under   *)
(* == it is true only if both sides are absent, and under != it is the     *)
(* negation of that: true when exactly one side is absent, false when both *)
(* are.                                                                    *)
(***************************************************************************)
C7_AbsentSideNegation ==
    (call.op = "matches" /\ call.sel.s = "cmp" /\ call.sel.op \in {"==", "!="})
    => LET l == Exec(call.sel.left, tree)
           r == Exec(call.sel.right, tree)
           both == Len(l.rs) = 0 /\ Len(r.rs) = 0
       IN (l.err = NoErr /\ r.err = NoErr /\ Len(l.rs) <= 1 /\ Len(r.rs) <= 1
             /\ (Len(l.rs) = 0 \/ Len(r.rs) = 0))
          => /\ ret.err = NoErr
             /\ ret.ok = IF call.sel.op = "==" THEN both ELSE ~both

(***************************************************************************)
(* C8 as stated.  When the right operand of ~= is not a valid regular      *)
(* expression, Matches returns an error: the comparison is not silently a  *)
(* non-match.                                                              *)
(***************************************************************************)
C8_InvalidRegexpIsError ==
    (call.op = "matches" /\ call.sel.s = "cmp" /\ call.sel.op = "~=")
    => LET l == Exec(call.sel.left, tree)
           r == Exec(call.sel.right, tree)
       IN (l.err = NoErr /\ r.err = NoErr /\ Len(l.rs) = 1 /\ Len(r.rs) = 1
             /\ l.rs[1].t = "string" /\ r.rs[1].t = "string"
             /\ RegexpInvalid(r.rs[1].s))
          => ret.err # NoErr

(***************************************************************************)
(* C9 as stated.  Has(keys...) and Get(keys...) never fault, and on a miss *)
(* they return false and the Nil sentinel, for every key path.             *)
(***************************************************************************)
C9_HasGetNeverFault ==
    call.op = "node"
    => /\ ret.has \in {"true", "false"}
       /\ ret.get # PanicNode
       /\ ret.has = "false" => ret.get = Nil

C6_ParseStringRoundTrip ==
    (call.op = "parse" /\ ret.err = NoErr)
    => /\ ~Faulted(ret.text)
       /\ ret.again = Parsed(ret.q, NoErr)

\* No node of the tree of n is an arrayHolder.
NoHolder(n) ==
    LET ns == SubNodes(n) IN \A i \in 1..Len(ns) : ns[i].t # "holder"

\* The plan has MapQuery and ArrayQuery steps only.
IsKeyPath(q) ==
    \/ q.q \in {"map", "array"}
    \/ q.q = "filter" /\ \A i \in 1..Len(q.qs) : q.qs[i].q \in {"map", "array"}

\* The root is an empty container that the first step of the path indexes:
\* a key on the empty Map, an index or a decimal key on the empty Array.
FirstStepFits(root, q) ==
    LET first == IF q.q = "filter" THEN q.qs[1] ELSE q
    IN \/ root = EmptyMap /\ first.q = "map"
       \/ /\ root = Array(<<>>)
          /\ \/ first.q = "array"
             \/ first.q = "map" /\ AtoiOk(first.key) /\ first.key # "-1"

(***************************************************************************)
(* C4 as stated.  From an empty Map or an empty Array, Edit of `path = v`  *)
(* with a path of MapQuery and ArrayQuery steps only returns no error, and *)
(* afterwards Find(root, path) returns exactly [v].                        *)
(***************************************************************************)
C4_EditSynthesizesContainers ==
    (/\ call.op = "edit" /\ call.eop = "=" /\ call.v # GoNil
     /\ ParseQuery(call.left).err = NoErr
     /\ IsKeyPath(ParseQuery(call.left).q)
     /\ FirstStepFits(call.root, PlanOf(ParseQuery(call.left).q)))
    => /\ ret.err = NoErr
       /\ Exec(PlanOf(ParseQuery(call.left).q), tree) = Out(<<call.v>>, NoErr)

(***************************************************************************)
(* C5.  After Edit returns, with nil or with an error, and also when it    *)
(* faults, the tree of the root holds no arrayHolder: every Array is a     *)
(* plain Array.  And unholdArray(holdArray(t)) = t for the trees t.        *)
(***************************************************************************)
C5_NoHolderAfterEdit ==
    /\ NoHolder(tree)
    /\ tree # GoNil => unholdArray(holdArray(tree, <<>>)) = tree
    /\ call.op = "edit" =>
         /\ call.root # GoNil
              => unholdArray(holdArray(call.root, <<>>)) = call.root
         /\ call.v # GoNil => unholdArray(holdArray(call.v, <<>>)) = call.v

\* An Edit that failed after it had parsed its expression and had changed
\* a tree that holds an Array in a Map.
C5_Witness ==
    /\ call.op = "edit" /\ ret.err \notin {NoErr, Panic}
    /\ ParseQuery(call.left).err = NoErr
    /\ tree # call.root
    /\ LET ns == SubNodes(tree) IN
         \E i \in 1..Len(ns) :
            ns[i].t = "map" /\ \E k \in DOMAIN ns[i].m : ns[i].m[k].t = "array"

(***************************************************************************)
(* C11.  A Slurp step of a FilterQuery replaces the working set, of any    *)
(* size, by exactly one Array whose elements are the nodes of the working  *)
(* set in their order; the steps after it run on that single node.         *)
(***************************************************************************)
C11_SlurpWrapsWorkingSet ==
    (call.op = "exec" /\ call.q.q = "filter")
    => /\ \A i \in 1..Len(call.q.qs) :
            call.q.qs[i].q = "slurp"
            => LET prev == Exec(FilterQuery(SubSeq(call.q.qs, 1, i - 1)), tree)
                   here == Exec(FilterQuery(SubSeq(call.q.qs, 1, i)), tree)
                   after == FilterQuery(SubSeq(call.q.qs, i + 1, Len(call.q.qs)))
               IN prev.err = NoErr
                  => /\ here.err = NoErr
                     /\ Len(here.rs) = 1
                     /\ here.rs[1].t = "array"
                     /\ here.rs[1].a = prev.rs
                     /\ ret = Exec(after, here.rs[1])
       /\ (tree = ArrayOfMaps
           /\ call.q = FilterQuery(<<SelectQuery(NoSelector), MapQuery("k"),
                                     SlurpQuery, ArrayQuery(0)>>))
            => ret = Out(<<NumberValue(1)>>, NoErr)

\* A Slurp in the middle of a pipeline wrapped a working set of several
\* nodes, and the step after it returned one node of the Array.
C11_Witness ==
    /\ call.op = "exec" /\ call.q.q = "filter" /\ ret.err = NoErr
    /\ \E i \in 2..(Len(call.q.qs) - 1) :
          /\ call.q.qs[i].q = "slurp"
          /\ call.q.qs[i + 1].q = "array"
          /\ Len(Exec(FilterQuery(SubSeq(call.q.qs, 1, i - 1)), tree).rs) > 1
    /\ Len(ret.rs) = 1

\* q fails on the non-nil node rs[j] and on no non-nil node before it.
FirstFailureAt(q, rs, j) ==
    /\ rs[j] # GoNil /\ Exec(q, rs[j]).err # NoErr
    /\ \A h \in 1..(j - 1) : rs[h] = GoNil \/ Exec(q, rs[h]).err = NoErr

(***************************************************************************)
(* C12.  When a step of a FilterQuery fails on a node of its working set,  *)
(* Exec returns the error of the first node on which it fails and no       *)
(* result: neither the results of the nodes before it nor those of the     *)
(* steps before it are returned, and the nodes after it do not count.      *)
(***************************************************************************)
C12_FilterFailsWhole ==
    (call.op = "exec" /\ call.q.q = "filter")
    => \A i \in 1..Len(call.q.qs) :
          LET prev == Exec(FilterQuery(SubSeq(call.q.qs, 1, i - 1)), tree)
          IN (prev.err = NoErr /\ call.q.qs[i].q # "slurp")
             => \A j \in 1..Len(prev.rs) :
                   FirstFailureAt(call.q.qs[i], prev.rs, j)
                   => ret = Out(<<>>, Exec(call.q.qs[i], prev.rs[j]).err)

\* A step after the first failed on a node in the middle of its working
\* set, after it had produced a result on the node before.
C12_Witness ==
    /\ call.op = "exec" /\ call.q.q = "filter" /\ ret.err # NoErr
    /\ \E i \in 2..Len(call.q.qs) :
          LET prev == Exec(FilterQuery(SubSeq(call.q.qs, 1, i - 1)), tree)
          IN /\ prev.err = NoErr /\ call.q.qs[i].q # "slurp"
             /\ \E j \in 2..(Len(prev.rs) - 1) :
                   /\ FirstFailureAt(call.q.qs[i], prev.rs, j)
                   /\ prev.rs[1] # GoNil
                   /\ Len(Exec(call.q.qs[i], prev.rs[1]).rs) > 0

(***************************************************************************)
(* C13 as stated.  MapQuery.Exec on a String, Bool, Number or Nil, and     *)
(* ArrayQuery.Exec and ArrayRangeQuery.Exec on a node that is not an       *)
(* Array, return an error; ArrayQuery.Exec on an Array whose length the    *)
(* index is not below returns no result and no error.                      *)
(***************************************************************************)
C13_IndexErrors ==
    call.op = "exec"
    => /\ (call.q.q = "map" /\ IsValue(tree)) => ret.err # NoErr
       /\ (call.q.q \in {"array", "range"} /\ tree.t # "array")
            => ret.err # NoErr
       /\ (call.q.q = "array" /\ tree.t = "array"
           /\ ~(call.q.i \in 0..(Len(tree.a) - 1)))
            => ret = Out(<<>>, NoErr)

\* The elements of a at the indices from..to-1 that a has, in order.
ElemsBetween(a, from, to) ==
    SubSeqOr(a, from + 1, IF to < Len(a) THEN to ELSE Len(a))

(***************************************************************************)
(* C14 as stated.  ArrayRangeQuery{from, to}.Exec on an Array returns, in  *)
(* order and without error, the elements at the indices from..to-1, where  *)
(* a from of -1 stands for the start and a to of -1 for the end.           *)
(***************************************************************************)
C14_RangeReturnsSlice ==
    (call.op = "exec" /\ call.q.q = "range" /\ Len(call.q.r) = 2
       /\ tree.t = "array")
    => LET from == IF call.q.r[1] = -1 THEN 0 ELSE call.q.r[1]
           to == IF call.q.r[2] = -1 THEN Len(tree.a) ELSE call.q.r[2]
       IN ret = Out(ElemsBetween(tree.a, from, to), NoErr)

\* The expression is one selector: the tokens between its brackets.
SelectorTokens(expr) == tokenizeQuery(expr).t.children[1].children

IsOneSelector(expr) ==
    /\ tokenizeQuery(expr).err = NoErr
    /\ Len(tokenizeQuery(expr).t.children) = 1
    /\ tokenizeQuery(expr).t.children[1].cmd = "["
    /\ Len(SelectorTokens(expr)) > 1
    /\ \A i \in 1..Len(SelectorTokens(expr)) : SelectorTokens(expr)[i].cmd # ":"

\* and and or both occur among the tokens ts, which are of one level.
MixedAt(ts) ==
    /\ \E i \in 1..Len(ts) : ts[i].cmd = "and"
    /\ \E i \in 1..Len(ts) : ts[i].cmd = "or"

\* and and or both occur at one level, in ts or in a parenthesis of ts.
RECURSIVE MixedWithin(_)
MixedWithin(ts) ==
    \/ MixedAt(ts)
    \/ \E i \in 1..Len(ts) : ts[i].cmd = "(" /\ MixedWithin(ts[i].children)

\* The number of the operand that the token at i of ts belongs to.
OperandOf(ts, i) ==
    1 + Cardinality({h \in 1..(i - 1) : ts[h].cmd \in {"and", "or"}})

(***************************************************************************)
(* C15.  ParseQuery rejects with the error `mixed and|or` a selector in    *)
(* which and and or both occur at one nesting level, that of the brackets  *)
(* or that of a parenthesis.  A selector whose and and or are kept apart   *)
(* by parentheses is accepted: its operands are joined by the operator of  *)
(* the level, and each parenthesis is one operand, the selector of the     *)
(* tokens inside it.                                                       *)
(***************************************************************************)
C15_MixedAndOr ==
    (call.op = "parse" /\ IsOneSelector(call.expr))
    => LET ts == SelectorTokens(call.expr) IN
       /\ MixedWithin(ts) => ret.err = ErrMixedAndOr
       /\ ~MixedWithin(ts) =>
            /\ ret.err = NoErr
            /\ ret.q.q = "select"
            /\ ret.q.sel.s =
                 (IF \E i \in 1..Len(ts) : ts[i].cmd = "or" THEN "or" ELSE "and")
            /\ Len(ret.q.sel.ss) = OperandOf(ts, Len(ts) + 1)
            /\ \A i \in 1..Len(ts) :
                  ts[i].cmd = "("
                  => ret.q.sel.ss[OperandOf(ts, i)]
                       = tokensToSelector(ts[i].children).sel
       /\ call.expr = <<"[", "(">> \o LtA1 \o OrChars \o GtK2 \o <<")">>
                         \o AndChars \o LtA1 \o <<"]">>
            => ret.q = SelectQuery(And(<<
                  Or(<<Comparator(MapQuery(<<"a">>), "<",
                                  ValueQuery(NumberValue(1))),
                       Comparator(MapQuery(<<"k">>), ">",
                                  ValueQuery(NumberValue(2)))>>),
                  Comparator(MapQuery(<<"a">>), "<",
                             ValueQuery(NumberValue(1)))>>))

\* A selector with an or inside a parenthesis and an and outside it was
\* parsed to an And whose operand is an Or of two comparisons.
C15_Witness ==
    /\ call.op = "parse" /\ IsOneSelector(call.expr) /\ ret.err = NoErr
    /\ ret.q.q = "select" /\ ret.q.sel.s = "and"
    /\ \E k \in 1..Len(ret.q.sel.ss) :
          ret.q.sel.ss[k].s = "or" /\ Len(ret.q.sel.ss[k].ss) = 2

\* The brackets of the expression, in order: the matches of the token
\* pattern that are a bracket (a bracket inside a quoted text is none).
Brackets(expr) ==
    LET IsBracket(m) == m.m2 \in {"[", "]", "(", ")"}
        ms == SelectSeq(FindAllStringSubmatch(expr, 1), IsBracket)
    IN [i \in 1..Len(ms) |-> ms[i].m2]

\* The opening bracket that a closing bracket matches.
Opener(b) == IF b = "]" THEN "[" ELSE "("

\* Scanning the brackets bs from i with the brackets of open still open:
\* "noleft" at the first closing bracket that does not match the innermost
\* open one, "noright" when the end is reached with a bracket open.
RECURSIVE ScanBrackets(_, _, _)
ScanBrackets(bs, i, open) ==
    IF i > Len(bs) THEN (IF Len(open) > 0 THEN "noright" ELSE "balanced")
    ELSE IF bs[i] \in {"[", "("} THEN ScanBrackets(bs, i + 1, Append(open, bs[i]))
    ELSE IF Len(open) = 0 \/ open[Len(open)] # Opener(bs[i]) THEN "noleft"
    ELSE ScanBrackets(bs, i + 1, SubSeq(open, 1, Len(open) - 1))

\* The number of bracket tokens in the trees of the tokens ts.
RECURSIVE BracketTokens(_)
BracketTokens(ts) ==
    IF Len(ts) = 0 THEN 0
    ELSE (IF Head(ts).cmd \in {"[", "("} THEN 1 ELSE 0)
         + BracketTokens(Head(ts).children) + BracketTokens(Tail(ts))

(***************************************************************************)
(* C16.  tokenizeQuery succeeds exactly when the brackets of the           *)
(* expression are balanced and properly nested.  It fails with `no left    *)
(* bracket` at a closing bracket whose innermost open bracket is not its   *)
(* match, or that has no open bracket, and with `no right brackets` when   *)
(* the end is reached with a bracket open.  On success the token returned  *)
(* is the root, which holds every bracket token of the expression.         *)
(***************************************************************************)
C16_TokenizeBalanced ==
    call.op = "parse"
    => LET scan == ScanBrackets(Brackets(call.expr), 1, <<>>)
           tk == tokenizeQuery(call.expr)
           opened == Cardinality({i \in 1..Len(Brackets(call.expr)) :
                                    Brackets(call.expr)[i] \in {"[", "("}})
       IN /\ scan = "noleft"
               => tk.err = ErrNoLeftBracket /\ ret.err = ErrNoLeftBracket
          /\ scan = "noright"
               => tk.err = ErrNoRightBrackets /\ ret.err = ErrNoRightBrackets
          /\ scan = "balanced"
               => /\ tk.err = NoErr
                  /\ tk.t.cmd = ""
                  /\ BracketTokens(tk.t.children) = opened
                  /\ ret.err \notin {ErrNoLeftBracket, ErrNoRightBrackets}

\* An expression with a parenthesis inside brackets was tokenized: the
\* root holds a bracket token that holds a parenthesis token.
C16_Witness ==
    /\ call.op = "parse"
    /\ tokenizeQuery(call.expr).err = NoErr
    /\ LET kids == tokenizeQuery(call.expr).t.children
       IN \E i \in 1..Len(kids) :
             /\ kids[i].cmd = "["
             /\ \E j \in 1..Len(kids[i].children) :
                   kids[i].children[j].cmd = "("

\* The steps of a path plan.
StepsOf(q) == IF q.q = "filter" THEN q.qs ELSE <<q>>

\* The container n can hold an entry under the key of the step.
Fits(n, step) ==
    \/ n.t = "map" /\ step.q = "map"
    \/ /\ n.t = "array" /\ ~n.isnil
       /\ \/ step.q = "array"
          \/ step.q = "map" /\ AtoiOk(step.key) /\ Atoi(step.key) >= 0

\* Nothing is at the path q of root, and its place is there: the steps
\* before the last lead to one container that the last step can index.
AbsentAt(root, q) ==
    /\ Exec(q, root) = Out(<<>>, NoErr)
    /\ LET p == Exec(FilterQuery(Front(StepsOf(q))), root)
       IN /\ p.err = NoErr /\ Len(p.rs) = 1 /\ p.rs[1] # GoNil
          /\ Fits(p.rs[1], Last(StepsOf(q)))

\* One Array is at the path q of root: a node whose Array() is not nil.
ArrayAt(root, q) ==
    LET b == Exec(q, root)
    IN b.err = NoErr /\ Len(b.rs) = 1 /\ b.rs[1] # GoNil /\ IsArrayNode(b.rs[1])

C18_SetIdempotent ==
    (/\ call.op = "edit" /\ call.eop = "="
     /\ nedits >= 2 /\ call.errs[nedits - 1] = NoErr)
    => ret.err = NoErr /\ tree = call.root

\* `.a.b.c = {}` was applied twice to the empty Map: the first application
\* built the Maps on the way, the second one succeeded and changed nothing.
C18_Witness ==
    /\ call.op = "edit" /\ call.eop = "=" /\ nedits = 2
    /\ call.left = <<".", "a", ".", "b", ".", "c">> /\ call.v = EmptyMap
    /\ call.first = EmptyMap
    /\ call.errs = <<NoErr, NoErr>>
    /\ call.root # call.first /\ tree = call.root
    /\ Exec(PlanOf(ParseQuery(call.left).q), tree).rs = <<EmptyMap>>

\* The key of a step of a key path, as a string.
StepKey(step) == IF step.q = "map" THEN step.key ELSE Itoa(step.i)

\* The key of the step is a key of the Map n or an index of the Array n.
HasStep(n, step) ==
    /\ n # GoNil
    /\ Fits(n, step)
    /\ StepKey(step) \in ChildKeys(n)

\* Every step of the key path leads to an entry that is there.
RECURSIVE PathExists(_, _)
PathExists(n, steps) ==
    /\ HasStep(n, Head(steps))
    /\ Len(steps) > 1 => PathExists(ChildAt(n, StepKey(Head(steps))), Tail(steps))

\* The node n without the entry of the key k: a Map without the key, an
\* Array without the element, the elements after it moved down by one.
WithoutKey(n, k) ==
    IF n.t = "map" THEN [n EXCEPT !.m = [x \in (DOMAIN n.m) \ {k} |-> n.m[x]]]
    ELSE [n EXCEPT !.a = [i \in 1..(Len(n.a) - 1) |->
                            IF i <= Atoi(k) THEN n.a[i] ELSE n.a[i + 1]]]

\* The tree of n without the entry at the end of the key path.
RECURSIVE WithoutPath(_, _)
WithoutPath(n, steps) ==
    LET k == StepKey(Head(steps)) IN
    IF Len(steps) = 1 THEN WithoutKey(n, k)
    ELSE IF n.t = "map"
    THEN [n EXCEPT !.m[k] = WithoutPath(n.m[k], Tail(steps))]
    ELSE [n EXCEPT !.a[Atoi(k) + 1] = WithoutPath(n.a[Atoi(k) + 1], Tail(steps))]

IsNumericKey(key) == key.k = "int" \/ (key.k = "str" /\ AtoiOk(key.s))

KeyNumber(key) == IF key.k = "int" THEN key.i ELSE Atoi(key.s)

(***************************************************************************)
(* C20.  Array.Set(i, v) with i at or past the length makes the Array      *)
(* exactly i+1 long: the elements it had stay where they are, the indices  *)
(* from the old length to i-1 hold nil, and v is at i.  With a negative    *)
(* key or a key that is no number it returns an error and the Array is     *)
(* unchanged.                                                              *)
(***************************************************************************)
C20_ArraySetGrows ==
    call.op = "set"
    => LET old == call.root.a
           i == KeyNumber(call.key)
       IN /\ (IsNumericKey(call.key) /\ i >= Len(old))
               => /\ ret.err = NoErr
                  /\ Len(tree.a) = i + 1
                  /\ \A j \in 1..Len(old) : tree.a[j] = old[j]
                  /\ \A j \in (Len(old) + 1)..i : tree.a[j] = GoNil
                  /\ tree.a[i + 1] = call.v
          /\ (~IsNumericKey(call.key) \/ i < 0)
               => ret.err # NoErr /\ tree = call.root

\* Set with an index two past the end of an Array that has elements: the
\* Array grew by two, with a nil gap before the value.
C20_Witness ==
    /\ call.op = "set" /\ ret.err = NoErr /\ call.v # GoNil
    /\ Len(call.root.a) > 0
    /\ Len(tree.a) = Len(call.root.a) + 2
    /\ tree.a[Len(tree.a) - 1] = GoNil
    /\ tree.a[Len(tree.a)] = call.v

(***************************************************************************)
(* C21..C30                                                                *)
(***************************************************************************)

\* A lookup that has read the map: its frame is past "access".
HasRead(frame) == frame.op = "new" /\ frame.pc \in {"call", "wait", "unlock"}

\* C21: RegisterNewMethodQueryFunc and NewMethodQuery are mutually exclusive.
\* At most one goroutine is at the registry map at a time; a lookup that has
\* read the map has the factory of the last registration of its name that
\* returned, or the error `unknown method: <name>` when there was none; and
\* a lookup of the name nobody registers returned that error.
C21_RegistryExclusive ==
    /\ \A p, q \in Goroutines : At(p, "access") /\ At(q, "access") => p = q
    /\ \A p \in Goroutines : \A i \in 1..Len(frames[p]) :
          HasRead(frames[p][i]) =>
             IF regd[frames[p][i].method] = NoFunc
             THEN /\ frames[p][i].err = ErrUnknownMethod(frames[p][i].method)
                  /\ frames[p][i].q = ""
             ELSE /\ frames[p][i].fn = regd[frames[p][i].method]
                  /\ frames[p][i].err = NoErr
    /\ \A p \in Goroutines :
          got[p].method = "x" =>
             got[p].err = "unknown method: x" /\ got[p].q = ""

\* A goroutine that looked up "x" and got the error waits for the lock,
\* while another has read the factory registered for "m".
C21_Witness ==
    \E p, q \in Goroutines :
       /\ p # q
       /\ mux = p /\ At(p, "call") /\ Top(p).method = "m" /\ Top(p).fn = "plain"
       /\ regd["m"] = "plain"
       /\ At(q, "lock")
       /\ got[q] = Got("x", "", "unknown method: x")

\* C24: the registry is append-only. No step replaces or removes the entry
\* of a name that has one.
C24_AppendOnly ==
    [][\A m \in Methods : funcs[m] # NoFunc => funcs'[m] = funcs[m]]_vars

\* C30: NewMethodQuery never blocks forever. No goroutine waits for the
\* registry lock while it holds the lock itself.
C30_NoSelfWait ==
    \A p \in Goroutines : ~(At(p, "lock") /\ mux = p)

\* The functions fn the walks of the model are made with: fn returns
\* SkipWalk at up to two nodes of the tree and an error at up to one other.
WalkFuncs(n) ==
    {WalkFunc(skip, fail) :
        skip \in {s \in SUBSET PathsOf(n) : Cardinality(s) <= 2},
        fail \in {s \in SUBSET PathsOf(n) : Cardinality(s) <= 1}}

\* Walk(root, fn): ret holds the calls of fn and the error returned.
WalkCall(fn) ==
    /\ call = NoCall
    /\ fn.skip \cap fn.fail = {}
    /\ ret' = Walk(tree, fn)
    /\ call' = [op |-> "walk", fn |-> fn, root |-> tree]
    /\ UNCHANGED <<tree, nedits>>
    /\ UNCHANGED regvars
    /\ UNCHANGED walkvars

NextWalk == (\E fn \in WalkFuncs(tree) : WalkCall(fn)) \/ Return

SpecWalk == Init /\ [][NextWalk]_vars

\* Key a comes before key b among the children of parent.
KeyBefore(parent, a, b) ==
    IF parent.t = "map" THEN KeyRank(a) < KeyRank(b) ELSE Atoi(a) < Atoi(b)

\* The node at p comes before the node at r in the pre-order of root: p is
\* an ancestor of r, or they part at keys of which p's is the smaller.
PreOrderBefore(root, p, r) ==
    \/ ProperPrefix(p, r)
    \/ \E i \in 1..Len(p) :
          /\ i <= Len(r)
          /\ SubSeq(p, 1, i - 1) = SubSeq(r, 1, i - 1)
          /\ p[i] # r[i]
          /\ KeyBefore(NodeAt(root, SubSeq(p, 1, i - 1)), p[i], r[i])

\* The paths of the nodes not below a node at which fn returns SkipWalk.
Unskipped(root, fn) ==
    {p \in PathsOf(root) : \A s \in fn.skip : ~ProperPrefix(s, p)}

\* What Walk has to do: the nodes not below a skipped node, up to the first
\* at which fn fails.
ToVisit(root, fn) ==
    {p \in Unskipped(root, fn) :
        \A f \in Unskipped(root, fn) \cap fn.fail : ~PreOrderBefore(root, f, p)}

\* C22: Walk calls fn on the nodes of the tree in pre-order, once per
\* node, with the keys of the node; below a node at which fn returns
\* SkipWalk nothing is visited, the walk goes on with what follows and that
\* return is no error of Walk; another error of fn ends the walk and is
\* what Walk returns.
C22_WalkPreOrder ==
    call.op = "walk" =>
       /\ {ret.rs[i].keys : i \in 1..Len(ret.rs)} = ToVisit(tree, call.fn)
       /\ Len(ret.rs) = Cardinality(ToVisit(tree, call.fn))
       /\ \A i, j \in 1..Len(ret.rs) :
             i < j => PreOrderBefore(tree, ret.rs[i].keys, ret.rs[j].keys)
       /\ \A i \in 1..Len(ret.rs) : ret.rs[i].n = NodeAt(tree, ret.rs[i].keys)
       /\ ret.err = IF Unskipped(tree, call.fn) \cap call.fn.fail = {}
                    THEN NoErr ELSE ErrBoom

\* A walk in which fn returned SkipWalk at a node with children, was then
\* called on a later sibling and on that sibling's child, and no error came
\* back.
C22_Witness ==
    /\ call.op = "walk" /\ ret.err = NoErr
    /\ \E s \in call.fn.skip :
          /\ EachKeys(NodeAt(tree, s)) # <<>>
          /\ \E i, j \in 1..Len(ret.rs) :
                /\ i < j
                /\ ret.rs[i].keys = s
                /\ Len(ret.rs[j].keys) > Len(s)

\* The method queries the model runs.
MethodNames == {"count", "keys", "values"}

\* The query of NewMethodQuery(method) run on the node at a path of the
\* tree, as the pipeline `<path> | method()` does.
MethodExec(method, p) ==
    /\ call = NoCall
    /\ ret' = MethodQuery_Exec(method, NodeAt(tree, p))
    /\ call' = [op |-> "method", method |-> method, keys |-> p,
                n |-> NodeAt(tree, p)]
    /\ UNCHANGED <<tree, nedits>>
    /\ UNCHANGED regvars
    /\ UNCHANGED walkvars

NextMethod ==
    \/ \E method \in MethodNames, p \in PathsOf(tree) : MethodExec(method, p)
    \/ Return

SpecMethod == Init /\ [][NextMethod]_vars

\* The key that a node of keys() names.
KeyOfNode(k) == IF k.t = "number" THEN IntKey(k.i) ELSE StrKey(k.s)

\* The one Array that keys() and values() return, or the nil Array when the
\* result is not one Array node.
OneArray(out) ==
    IF out.err = NoErr /\ Len(out.rs) = 1 /\ out.rs[1].t = "array"
    THEN out.rs[1] ELSE NilArray

\* C23: for an Array or a Map n, keys() and values() each return one Array
\* as long as count() says, the keys ascend (the indices of an Array, the
\* sorted keys of a Map) and values()[i] is n.Get(keys()[i]); for a node of
\* another type keys() and values() return nothing and count() returns 0.
C23_KeysValuesCount ==
    call.op = "method" =>
       /\ ret = MethodQuery_Exec(call.method, call.n)
       /\ IF call.n.t \in {"array", "map"}
          THEN LET ks == OneArray(KeysQuery_Exec(call.n))
                   vs == OneArray(ValuesQuery_Exec(call.n))
               IN /\ Len(KeysQuery_Exec(call.n).rs) = 1
                  /\ Len(ValuesQuery_Exec(call.n).rs) = 1
                  /\ KeysQuery_Exec(call.n).rs[1].t = "array"
                  /\ ValuesQuery_Exec(call.n).rs[1].t = "array"
                  /\ CountQuery_Exec(call.n)
                        = Out(<<NumberValue(Len(ks.a))>>, NoErr)
                  /\ Len(vs.a) = Len(ks.a)
                  /\ call.n.t = "array"
                        => \A i \in 1..Len(ks.a) : ks.a[i] = NumberValue(i - 1)
                  /\ call.n.t = "map"
                        => /\ {ks.a[i] : i \in 1..Len(ks.a)}
                                = {StringValue(k) : k \in DOMAIN call.n.m}
                           /\ \A i, j \in 1..Len(ks.a) :
                                 i < j => KeyRank(ks.a[i].s) < KeyRank(ks.a[j].s)
                  /\ \A i \in 1..Len(ks.a) :
                        i <= Len(vs.a) => vs.a[i] = Get(call.n, KeyOfNode(ks.a[i]))
          ELSE /\ KeysQuery_Exec(call.n) = Out(<<>>, NoErr)
               /\ ValuesQuery_Exec(call.n) = Out(<<>>, NoErr)
               /\ CountQuery_Exec(call.n) = Out(<<NumberValue(0)>>, NoErr)

\* The right sides of the edit expressions: none, literals, and string
\* literals that hold an operation between spaces.
EditRights ==
    {<<>>, <<"1">>, <<Quote, "x", Quote>>,
     <<Quote, "x", " ", "=", " ", "y", Quote>>,
     <<Quote, "a", " ", "d", "e", "l", Quote>>}

\* The edit expressions of the model: `<path> <op>[ <literal>]`, and paths
\* that no operation follows.
EditExprs ==
    {l \o <<" ">> \o EditOpChars[k] \o (IF r = <<>> THEN <<>> ELSE <<" ">> \o r) :
        l \in {<<".", "a">>, <<".", "k">>, <<"[", "0", "]">>,
               <<"[", ".", "k", " ", "=", "=", " ", "1", "]", ".", "k">>},
        k \in 1..Len(EditOpChars), r \in EditRights}
    \cup {<<".", "a">>, <<".", "a", " ", "x">>, <<" ", "=", " ", "1">>}

\* Edit(&root, expr) with the text of expr; ms is what editRegexp found.
EditExpr(expr) ==
    /\ call = NoCall
    /\ nedits < MaxEdits
    /\ \E done \in {EditExprOf(tree, expr)} :
          /\ tree' = done.T
          /\ ret' = [err |-> done.err]
    /\ call' = [op |-> "editexpr", expr |-> expr, root |-> tree,
                ms |-> editRegexp_FindStringSubmatch(expr)]
    /\ nedits' = nedits + 1
    /\ UNCHANGED regvars
    /\ UNCHANGED walkvars

NextEditExpr == (\E expr \in EditExprs : EditExpr(expr)) \/ Return

SpecEditExpr == Init /\ [][NextEditExpr]_vars

\* C25: Edit splits the expression at the first operation that follows a
\* space: the path is the text before it and the literal is all the text
\* after it, also when the literal holds an operation between spaces; for
\* `.a = "x = y"` the path is `.a`, the operation `=` and the literal the
\* string "x = y".
C25_SplitsAtFirstOp ==
    (call.op = "editexpr" /\ EditSplits(call.expr) # {}) =>
       LET i == CHOOSE x \in EditSplits(call.expr) :
                   \A y \in EditSplits(call.expr) : x <= y
           op == EditOpAt(call.expr, i + 2)
           r == i + 2 + Len(op)
       IN /\ call.ms.m1 = SubSeq(call.expr, 1, i)
          /\ call.ms.m2 = op
          /\ call.ms.m3 = IF StartsWith(call.expr, r, <<" ">>)
                          THEN SubSeq(call.expr, r + 1, Len(call.expr))
                          ELSE SubSeq(call.expr, r, Len(call.expr))
          /\ (call.expr = <<".", "a", " ", "=", " ",
                            Quote, "x", " ", "=", " ", "y", Quote>>
              /\ call.root = EmptyMap)
                => /\ ret.err = NoErr
                   /\ tree = Map1("a", StringValue("x = y"))

\* Find(n, expr): ParseQuery, then Exec of the plan.
FindOf(n, expr) ==
    LET K(p) == IF p.err # NoErr THEN Out(<<>>, p.err) ELSE Exec(PlanOf(p.q), n)
    IN K(ParseQuery(expr))

\* Bracket bodies that are no index, no range and no sequence of
\* comparators and groups: `.a .b`, `a b`, `.a 1`, an operand of and/or
\* without a comparison, a group without one.
BadSelectorExprs ==
    {<<"[", ".", "a", " ", ".", "b", "]">>,
     <<"[", "a", " ", "b", "]">>,
     <<"[", ".", "a", " ", "1", "]">>,
     <<"[">> \o CmpA1 \o AndChars \o <<".", "k", "]">>,
     <<"[", ".", "k">> \o OrChars \o CmpA1 \o <<"]">>,
     <<"[", "(", ".", "a", " ", ".", "b", ")", "]">>,
     <<"[", ".", "a", " ", ".", "b", "]", ".", "k">>}

\* Bracket bodies of the three kinds.
GoodSelectorExprs ==
    {<<"[", "0", "]">>, <<"[", "0", ":", "1", "]">>, <<"[", "]">>,
     <<"[">> \o CmpA1 \o <<"]">>, <<"[">> \o GtK2 \o <<"]">>,
     <<"[">> \o LtA1 \o OrChars \o GtK2 \o <<"]">>}

\* Find(root, expr); q is the query that ParseQuery made of expr.
FindCall(expr) ==
    /\ call = NoCall
    /\ call' = [op |-> "find", expr |-> expr, parsed |-> ParseQuery(expr)]
    /\ ret' = FindOf(tree, expr)
    /\ UNCHANGED <<tree, nedits>>
    /\ UNCHANGED regvars
    /\ UNCHANGED walkvars

NextFind ==
    \/ \E expr \in BadSelectorExprs \cup GoodSelectorExprs : FindCall(expr)
    \/ Return

SpecFind == Init /\ [][NextFind]_vars

\* The Selects among the steps of a parsed query.
SelectsOf(q) ==
    IF q.q = "select" THEN {q}
    ELSE IF q.q = "filter" THEN {q.qs[i] : i \in {j \in 1..Len(q.qs) : q.qs[j].q = "select"}}
    ELSE {}

\* C26: ParseQuery returns a syntax error for a bracket body that is no
\* index, no range and no sequence of well-formed comparators and groups,
\* and makes no Select of it whose selector is empty and lets every
\* element of an Array through.
C26_BadSelectorIsError ==
    (call.op = "find" /\ call.expr \in BadSelectorExprs) =>
       /\ call.parsed.err # NoErr
       /\ call.parsed.q = NoQuery
       /\ ret = Out(<<>>, call.parsed.err)
       /\ \A s \in SelectsOf(call.parsed.q) : s.sel \notin {And(<<>>), Or(<<>>)}
       /\ ~(tree = ArrayOfMaps /\ ret = Out(tree.a, NoErr))

(***************************************************************************)
(* WalkQuery.Set on the tree as Go holds it.  A Map is a reference: the    *)
(* Map v that Set stores is the same object wherever it is stored.  The    *)
(* objects are named by the path they have before the edit, the Map of the *)
(* right side by NewId.  wstack is the stack of the calls of walk the edit *)
(* is in: the node, its keys, the keys Each has still to pass, and whether *)
(* fn has been called.                                                     *)
(***************************************************************************)
Ref(id) == [t |-> "ref", id |-> id]

NewId == <<"$v">>

\* What a container holds at a child, or the variable holds at the root:
\* a reference for a Map or an Array, the value itself otherwise.
SlotOf(c, p) == IF c.t \in {"map", "array"} THEN Ref(p) ELSE c

ObjectOf(n, p) ==
    IF n.t = "map"
    THEN [t |-> "map", m |-> [k \in DOMAIN n.m |-> SlotOf(n.m[k], Append(p, k))]]
    ELSE [t |-> "array",
          a |-> [i \in 1..Len(n.a) |-> SlotOf(n.a[i], Append(p, Itoa(i - 1)))]]

\* The objects of the tree n.
HeapOf(n) ==
    [p \in {q \in PathsOf(n) : NodeAt(n, q).t \in {"map", "array"}}
        |-> ObjectOf(NodeAt(n, p), p)]

\* The right sides of `..key = v`: a string, a Map without the key and a
\* Map with it.
WalkSetValues(key) ==
    {StringValue("x"), Map1("b", NumberValue(1)), Map1(key, NumberValue(1))}

WalkFrame(n, keys) == [n |-> n, keys |-> keys, pc |-> "fn", ks |-> <<>>]

\* Edit(&root, `..key = v`): the node of the right side is made, then
\* WalkQuery.Set calls Walk on the root.
WalkSetCall(key, v) ==
    /\ call = NoCall /\ wstack = <<>>
    /\ nedits < MaxEdits
    /\ heap' = IF v.t = "map" THEN (NewId :> ObjectOf(v, NewId)) @@ heap ELSE heap
    /\ wstack' = <<WalkFrame(SlotOf(tree, <<>>), <<>>)>>
    /\ call' = [op |-> "walkset", key |-> key, v |-> SlotOf(v, NewId),
                before |-> DOMAIN heap]
    /\ ret' = Out(<<>>, NoErr)
    /\ nedits' = nedits + 1
    /\ UNCHANGED tree
    /\ UNCHANGED regvars

WTop == wstack[Len(wstack)]

\* The keys that Each of the node in slot n passes, taken when Each starts.
SlotKeys(n) ==
    IF n.t # "ref" THEN <<>>
    ELSE IF heap'[n.id].t = "map" THEN SortedFrom(DOMAIN heap'[n.id].m, 1)
    ELSE [i \in 1..Len(heap'[n.id].a) |-> Itoa(i - 1)]

\* walk calls fn(n, keys): the callback of WalkQuery.Set stores v under the
\* key when n is a Map that has it; then n.Each starts.
WalkSetFn ==
    /\ Len(wstack) > 0 /\ WTop.pc = "fn"
    /\ heap' = IF /\ WTop.n.t = "ref"
                  /\ heap[WTop.n.id].t = "map"
                  /\ call.key \in DOMAIN heap[WTop.n.id].m
               THEN [heap EXCEPT ![WTop.n.id].m[call.key] = call.v]
               ELSE heap
    /\ wstack' = [wstack EXCEPT ![Len(wstack)] =
                    [WTop EXCEPT !.pc = "each", !.ks = SlotKeys(WTop.n)]]
    /\ ret' = Out(Append(ret.rs, Visit(WTop.n, WTop.keys)), NoErr)
    /\ UNCHANGED <<tree, call, nedits>>
    /\ UNCHANGED regvars

\* The child that the node in slot n has now under key k.
SlotChild(n, k) ==
    IF heap[n.id].t = "map" THEN heap[n.id].m[k] ELSE heap[n.id].a[Atoi(k) + 1]

\* Each passes the next key and the child under it to walk, which returns
\* at once for a nil child and calls fn on any other.
WalkSetEach ==
    /\ Len(wstack) > 0 /\ WTop.pc = "each" /\ Len(WTop.ks) > 0
    /\ Len(wstack) < MaxWalkDepth
    /\ wstack' =
         IF SlotChild(WTop.n, Head(WTop.ks)) = GoNil
         THEN [wstack EXCEPT ![Len(wstack)].ks = Tail(WTop.ks)]
         ELSE Append([wstack EXCEPT ![Len(wstack)].ks = Tail(WTop.ks)],
                     WalkFrame(SlotChild(WTop.n, Head(WTop.ks)),
                               Append(WTop.keys, Head(WTop.ks))))
    /\ UNCHANGED <<tree, call, ret, nedits, heap>>
    /\ UNCHANGED regvars

\* Each has passed every key: walk returns to the walk of the parent, or
\* Walk returns to Edit.
WalkSetReturn ==
    /\ Len(wstack) > 0 /\ WTop.pc = "each" /\ Len(WTop.ks) = 0
    /\ wstack' = SubSeq(wstack, 1, Len(wstack) - 1)
    /\ UNCHANGED <<tree, call, ret, nedits, heap>>
    /\ UNCHANGED regvars

NextWalkSet ==
    \/ \E key \in {"a", "k"} : \E v \in WalkSetValues(key) : WalkSetCall(key, v)
    \/ WalkSetFn
    \/ WalkSetEach
    \/ WalkSetReturn

\* A tree of the model as the objects Go holds; no edit has been made.
InitObjects ==
    /\ tree \in InitTrees
    /\ call = NoCall
    /\ ret = Out(<<>>, NoErr)
    /\ nedits = 0
    /\ InitRegistry
    /\ heap = HeapOf(tree)
    /\ wstack = <<>>

SpecWalkSet == InitObjects /\ [][NextWalkSet]_vars

\* The objects that object id holds a reference to.
RefsOf(id) ==
    IF heap[id].t = "map"
    THEN {heap[id].m[k].id : k \in {x \in DOMAIN heap[id].m : heap[id].m[x].t = "ref"}}
    ELSE {heap[id].a[i].id : i \in {x \in 1..Len(heap[id].a) : heap[id].a[x].t = "ref"}}

\* The objects reached from the objects of ids in at most n steps of one
\* reference or more.
RECURSIVE ReachedIn(_, _)
ReachedIn(ids, n) ==
    IF n = 0 THEN {}
    ELSE LET next == UNION {RefsOf(id) : id \in ids}
         IN next \cup ReachedIn(next, n - 1)

\* C27: Edit with `..key = v` ends, calls the callback only on nodes the
\* tree had before the edit, and leaves a tree without a cycle, also when
\* v is a Map that holds key.  No walk is inside a walk of the same
\* object, every node visited was at its path before the edit, and no
\* object is reached from itself.
C27_WalkSetEnds ==
    call.op = "walkset" =>
       /\ \A i, j \in 1..Len(wstack) :
             (i < j /\ wstack[i].n.t = "ref") => wstack[j].n # wstack[i].n
       /\ \A i \in 1..Len(ret.rs) :
             /\ ret.rs[i].keys \in PathsOf(tree)
             /\ ret.rs[i].n = SlotOf(NodeAt(tree, ret.rs[i].keys), ret.rs[i].keys)
       /\ \A id \in DOMAIN heap :
             id \notin ReachedIn({id}, Cardinality(DOMAIN heap))

\* C28: Edit with `delete` on a path of keys and indexes whose
\* intermediate key or index is not there leaves the tree as it was: no
\* empty Map or Array is made on the way to the entry.
C28_DeleteLeavesTree ==
    (/\ call.op = "edit" /\ call.eop = "delete"
     /\ ParseQuery(call.left).err = NoErr
     /\ IsKeyPath(PlanOf(ParseQuery(call.left).q))
     /\ Len(StepsOf(PlanOf(ParseQuery(call.left).q))) > 1
     /\ call.root # GoNil
     /\ ~PathExists(call.root, Front(StepsOf(PlanOf(ParseQuery(call.left).q)))))
    => tree = call.root

\* C29: ArrayRangeQuery{from, to}.Exec on an Array never faults.  For all
\* bounds from -1 up, also past the length, crossed or both open, it
\* returns an error value or elements of the Array that follow one
\* another in it.
C29_RangeNeverFaults ==
    (/\ call.op = "exec" /\ call.q.q = "range" /\ Len(call.q.r) = 2
     /\ call.q.r[1] >= -1 /\ call.q.r[2] >= -1
     /\ tree.t = "array")
    => /\ ret.err # Panic
       /\ ret.err = NoErr
             => \E lo \in 0..Len(tree.a) :
                   /\ lo + Len(ret.rs) <= Len(tree.a)
                   /\ ret.rs = SubSeq(tree.a, lo + 1, lo + Len(ret.rs))

====
